---- MODULE Spec2Model ----
(***************************************************************************)
(* A model of the PubGrub dependency solver of contriboss/pubgrub-go:      *)
(* the version-set algebra over intervals, terms and incompatibilities,    *)
(* the partial solution, and the main loop of Solver.Solve with unit       *)
(* propagation and conflict resolution.                                    *)
(*                                                                         *)
(* Versions are the integers 1..MaxVer under their usual order (the code   *)
(* needs only Version.Sort).  Package names are strings; EmptyName is "".  *)
(***************************************************************************)
EXTENDS Integers, Sequences, FiniteSets, TLC

\* ----------------------------------------------------------------------
\* Bounds of the model
\* ----------------------------------------------------------------------

\* Highest version number a catalog may list for a package.
MaxVer == 2

\* Largest step cap (SolverOptions.MaxSteps) drawn for a solve.
MaxStepCap == 3

\* The most dependency terms a catalog carries in all.
MaxEdges == 2

\* ----------------------------------------------------------------------
\* Version bounds (version_bound.go)
\* ----------------------------------------------------------------------

boundNegativeInfinity == -1
boundFinite == 0
boundPositiveInfinity == 1

\* Version.Sort on the integer versions of the model.
Sort(a, b) == IF a < b THEN -1 ELSE IF a > b THEN 1 ELSE 0

newLowerBound(version, inclusive) ==
    [version |-> version, inclusive |-> inclusive, infinite |-> boundFinite]

newUpperBound(version, inclusive) ==
    [version |-> version, inclusive |-> inclusive, infinite |-> boundFinite]

negativeInfinityBound ==
    [version |-> 0, inclusive |-> TRUE, infinite |-> boundNegativeInfinity]

positiveInfinityBound ==
    [version |-> 0, inclusive |-> TRUE, infinite |-> boundPositiveInfinity]

isNegInfinity(b) == b.infinite = boundNegativeInfinity
isPosInfinity(b) == b.infinite = boundPositiveInfinity
isFinite(b) == b.infinite = boundFinite

compareLower(a, b) ==
    CASE a.infinite = boundNegativeInfinity /\ b.infinite = boundNegativeInfinity -> 0
      [] a.infinite = boundNegativeInfinity /\ b.infinite # boundNegativeInfinity -> -1
      [] a.infinite # boundNegativeInfinity /\ b.infinite = boundNegativeInfinity -> 1
      [] OTHER ->
         CASE a.infinite = boundPositiveInfinity /\ b.infinite = boundPositiveInfinity -> 0
           [] a.infinite = boundPositiveInfinity /\ b.infinite # boundPositiveInfinity -> 1
           [] a.infinite # boundPositiveInfinity /\ b.infinite = boundPositiveInfinity -> -1
           [] OTHER ->
              IF Sort(a.version, b.version) # 0 THEN Sort(a.version, b.version)
              ELSE IF a.inclusive = b.inclusive THEN 0
              ELSE IF a.inclusive THEN -1 ELSE 1

compareUpper(a, b) ==
    CASE a.infinite = boundPositiveInfinity /\ b.infinite = boundPositiveInfinity -> 0
      [] a.infinite = boundPositiveInfinity /\ b.infinite # boundPositiveInfinity -> 1
      [] a.infinite # boundPositiveInfinity /\ b.infinite = boundPositiveInfinity -> -1
      [] OTHER ->
         CASE a.infinite = boundNegativeInfinity /\ b.infinite = boundNegativeInfinity -> 0
           [] a.infinite = boundNegativeInfinity /\ b.infinite # boundNegativeInfinity -> -1
           [] a.infinite # boundNegativeInfinity /\ b.infinite = boundNegativeInfinity -> 1
           [] OTHER ->
              IF Sort(a.version, b.version) # 0 THEN Sort(a.version, b.version)
              ELSE IF a.inclusive = b.inclusive THEN 0
              ELSE IF a.inclusive THEN 1 ELSE -1

\* ----------------------------------------------------------------------
\* Intervals (version_interval.go)
\* ----------------------------------------------------------------------

\* versionInterval.isEmpty
isEmpty(iv) ==
    IF isPosInfinity(iv.lower) \/ isNegInfinity(iv.upper) THEN TRUE
    ELSE IF isNegInfinity(iv.lower) \/ isPosInfinity(iv.upper) THEN FALSE
    ELSE LET cmp == Sort(iv.lower.version, iv.upper.version) IN
         IF cmp < 0 THEN FALSE
         ELSE IF cmp > 0 THEN TRUE
         ELSE ~iv.lower.inclusive \/ ~iv.upper.inclusive

\* newInterval returns (interval, ok); the model returns <<>> when not ok
\* and <<interval>> when ok.
newInterval(lower, upper) ==
    LET interval == [lower |-> lower, upper |-> upper] IN
    IF isEmpty(interval) THEN <<>> ELSE <<interval>>

\* versionInterval.contains
contains(iv, version) ==
    /\ \/ isNegInfinity(iv.lower)
       \/ LET cmp == Sort(version, iv.lower.version) IN
          ~(cmp < 0) /\ ~(cmp = 0 /\ ~iv.lower.inclusive)
    /\ \/ isPosInfinity(iv.upper)
       \/ LET cmp == Sort(version, iv.upper.version) IN
          ~(cmp > 0) /\ ~(cmp = 0 /\ ~iv.upper.inclusive)

upperLessThanLower(upper, lower) ==
    CASE isNegInfinity(upper) -> ~isNegInfinity(lower)
      [] ~isNegInfinity(upper) /\ isPosInfinity(lower) -> ~isPosInfinity(upper)
      [] ~isNegInfinity(upper) /\ ~isPosInfinity(lower) /\ isPosInfinity(upper) -> FALSE
      [] ~isNegInfinity(upper) /\ ~isPosInfinity(lower) /\ ~isPosInfinity(upper)
           /\ isNegInfinity(lower) -> FALSE
      [] OTHER ->
         LET cmp == Sort(upper.version, lower.version) IN
         IF cmp < 0 THEN TRUE
         ELSE IF cmp > 0 THEN FALSE
         ELSE ~upper.inclusive \/ ~lower.inclusive

overlaps(iv, other) ==
    IF upperLessThanLower(iv.upper, other.lower) THEN FALSE
    ELSE IF upperLessThanLower(other.upper, iv.lower) THEN FALSE
    ELSE TRUE

touches(iv, other) ==
    /\ ~upperLessThanLower(iv.upper, other.lower)
    /\ ~upperLessThanLower(other.upper, iv.lower)

minLower(a, b) == IF compareLower(a, b) <= 0 THEN a ELSE b
maxLower(a, b) == IF compareLower(a, b) >= 0 THEN a ELSE b
minUpper(a, b) == IF compareUpper(a, b) <= 0 THEN a ELSE b
maxUpper(a, b) == IF compareUpper(a, b) >= 0 THEN a ELSE b

merge(iv, other) ==
    [lower |-> minLower(iv.lower, other.lower),
     upper |-> maxUpper(iv.upper, other.upper)]

covers(iv, other) ==
    IF compareLower(iv.lower, other.lower) > 0 THEN FALSE
    ELSE IF compareUpper(iv.upper, other.upper) < 0 THEN FALSE
    ELSE TRUE

complementLowerBound(iv) ==
    CASE iv.upper.infinite = boundPositiveInfinity -> positiveInfinityBound
      [] iv.upper.infinite = boundNegativeInfinity -> negativeInfinityBound
      [] OTHER -> [version |-> iv.upper.version,
                   inclusive |-> ~iv.upper.inclusive,
                   infinite |-> boundFinite]

complementUpperBound(iv) ==
    CASE iv.lower.infinite = boundNegativeInfinity -> negativeInfinityBound
      [] iv.lower.infinite = boundPositiveInfinity -> positiveInfinityBound
      [] OTHER -> [version |-> iv.lower.version,
                   inclusive |-> ~iv.lower.inclusive,
                   infinite |-> boundFinite]

\* slices.SortFunc by compareLower.  Intervals that tie on the lower bound
\* overlap and are merged by the sweep that follows, so the order the
\* (unstable) sort leaves them in does not show in the result.
RECURSIVE insertByLower(_, _)
insertByLower(sorted, iv) ==
    IF sorted = <<>> THEN <<iv>>
    ELSE IF compareLower(iv.lower, Head(sorted).lower) < 0 THEN <<iv>> \o sorted
    ELSE <<Head(sorted)>> \o insertByLower(Tail(sorted), iv)

RECURSIVE sortByLower(_)
sortByLower(intervals) ==
    IF intervals = <<>> THEN <<>>
    ELSE insertByLower(sortByLower(Tail(intervals)), Head(intervals))

RECURSIVE mergeSweep(_, _)
mergeSweep(merged, rest) ==
    IF rest = <<>> THEN merged
    ELSE LET last == merged[Len(merged)]
             current == Head(rest)
         IN IF touches(last, current)
            THEN mergeSweep([merged EXCEPT ![Len(merged)] = merge(last, current)],
                            Tail(rest))
            ELSE mergeSweep(Append(merged, current), Tail(rest))

normalizeIntervals(intervals) ==
    LET filtered == SelectSeq(intervals, LAMBDA iv : ~isEmpty(iv)) IN
    IF Len(filtered) = 0 THEN <<>>
    ELSE LET sorted == sortByLower(filtered) IN
         mergeSweep(<<Head(sorted)>>, Tail(sorted))

\* ----------------------------------------------------------------------
\* VersionIntervalSet (version_interval_set.go): a set is the sequence of
\* its intervals.
\* ----------------------------------------------------------------------

newVersionIntervalSet(intervals) == normalizeIntervals(intervals)

EmptySet == <<>>

FullVersionSet == <<[lower |-> negativeInfinityBound, upper |-> positiveInfinityBound]>>

Singleton(version) ==
    newInterval(newLowerBound(version, TRUE), newUpperBound(version, TRUE))

intervalSetFromBounds(lower, upper) ==
    LET r == newInterval(lower, upper) IN
    IF r # <<>> THEN newVersionIntervalSet(r) ELSE <<>>

Union(s, o) == newVersionIntervalSet(s \o o)

intersectInterval(a, b) ==
    newInterval(maxLower(a.lower, b.lower), minUpper(a.upper, b.upper))

RECURSIVE intersectionLoop(_, _, _, _, _)
intersectionLoop(s, o, i, j, result) ==
    IF i <= Len(s) /\ j <= Len(o)
    THEN LET r == result \o intersectInterval(s[i], o[j]) IN
         IF compareUpper(s[i].upper, o[j].upper) < 0
         THEN intersectionLoop(s, o, i + 1, j, r)
         ELSE intersectionLoop(s, o, i, j + 1, r)
    ELSE result

Intersection(s, o) ==
    IF Len(s) = 0 \/ Len(o) = 0 THEN <<>>
    ELSE newVersionIntervalSet(intersectionLoop(s, o, 1, 1, <<>>))

RECURSIVE complementLoop(_, _, _, _)
complementLoop(s, k, currentLower, gaps) ==
    IF k > Len(s) THEN gaps \o newInterval(currentLower, positiveInfinityBound)
    ELSE complementLoop(s, k + 1, complementLowerBound(s[k]),
                        gaps \o newInterval(currentLower, complementUpperBound(s[k])))

Complement(s) ==
    IF Len(s) = 0 THEN FullVersionSet
    ELSE newVersionIntervalSet(complementLoop(s, 1, negativeInfinityBound, <<>>))

Contains(s, version) == \E k \in 1..Len(s) : contains(s[k], version)

IsEmpty(s) == Len(s) = 0

RECURSIVE isSubsetLoop(_, _, _, _)
isSubsetLoop(s, o, i, j) ==
    IF i > Len(s) THEN TRUE
    ELSE IF j > Len(o) THEN FALSE
    ELSE IF covers(o[j], s[i]) THEN isSubsetLoop(s, o, i + 1, j)
    ELSE IF upperLessThanLower(o[j].upper, s[i].lower) THEN isSubsetLoop(s, o, i, j + 1)
    ELSE FALSE

IsSubset(s, o) ==
    IF Len(s) = 0 THEN TRUE
    ELSE IF Len(o) = 0 THEN FALSE
    ELSE isSubsetLoop(s, o, 1, 1)

RECURSIVE isDisjointLoop(_, _, _, _)
isDisjointLoop(s, o, i, j) ==
    IF i <= Len(s) /\ j <= Len(o)
    THEN IF overlaps(s[i], o[j]) THEN FALSE
         ELSE IF compareUpper(s[i].upper, o[j].upper) < 0
              THEN isDisjointLoop(s, o, i + 1, j)
              ELSE isDisjointLoop(s, o, i, j + 1)
    ELSE TRUE

IsDisjoint(s, o) ==
    IF Len(s) = 0 THEN TRUE
    ELSE IF Len(o) = 0 THEN TRUE
    ELSE isDisjointLoop(s, o, 1, 1)

\* singletonVersionFromSet returns (version, ok); the model returns 0 when
\* not ok (0 is no version of the model).
singletonVersionFromSet(set) ==
    IF Len(set) # 1 THEN 0
    ELSE LET interval == set[1] IN
         IF ~isFinite(interval.lower) \/ ~isFinite(interval.upper) THEN 0
         ELSE IF Sort(interval.lower.version, interval.upper.version) # 0 THEN 0
         ELSE IF ~interval.lower.inclusive \/ ~interval.upper.inclusive THEN 0
         ELSE interval.lower.version

setsEqual(a, b) == IsSubset(a, b) /\ IsSubset(b, a)

\* ----------------------------------------------------------------------
\* Names, conditions and terms (name.go, condition.go, term.go)
\* ----------------------------------------------------------------------

EmptyName == ""

\* The name RootSource gives the root pseudo-package ("$$root").
RootName == "$$root"

\* Condition values: EqualsCondition{Version}, *VersionSetCondition{Set},
\* the nil Condition, and a value of a Condition type of the caller's own.
EqualsCondition(version) == [kind |-> "equals", version |-> version, set |-> <<>>]
NewVersionSetCondition(set) == [kind |-> "set", version |-> 0, set |-> set]
NilCondition == [kind |-> "nil", version |-> 0, set |-> <<>>]

\* A Condition of a type the caller implements (String and Satisfies):
\* neither EqualsCondition nor *VersionSetCondition.  Its Satisfies accepts
\* every version.
CustomCondition == [kind |-> "custom", version |-> 0, set |-> <<>>]

NewTerm(name, condition) == [Name |-> name, Condition |-> condition, Positive |-> TRUE]

NewNegativeTerm(name, condition) ==
    [Name |-> name, Condition |-> condition, Positive |-> FALSE]

Negate(t) == [Name |-> t.Name, Condition |-> t.Condition, Positive |-> ~t.Positive]

\* The type switch shared by termAllowedSet and termForbiddenSet: (set,
\* ok).  The default branch answers ok = false for a Condition of any type
\* other than EqualsCondition and *VersionSetCondition.
conditionSet(cond) ==
    CASE cond.kind = "nil" -> [set |-> FullVersionSet, ok |-> TRUE]
      [] cond.kind = "equals" -> [set |-> Singleton(cond.version), ok |-> TRUE]
      [] cond.kind = "set" -> [set |-> cond.set, ok |-> TRUE]
      [] OTHER -> [set |-> <<>>, ok |-> FALSE]

\* termAllowedSet returns (set, ok).
termAllowedSet(term) ==
    IF ~term.Positive THEN [set |-> <<>>, ok |-> FALSE]
    ELSE conditionSet(term.Condition)

\* termForbiddenSet returns (set, ok).
termForbiddenSet(term) ==
    IF term.Positive THEN [set |-> <<>>, ok |-> FALSE]
    ELSE conditionSet(term.Condition)

\* applyTermToAllowed returns (set, error); err is "" or the message of
\* the error for a term whose condition has no set.
applyTermToAllowed(current, term) ==
    IF term.Positive
    THEN LET allowed == termAllowedSet(term) IN
         IF ~allowed.ok
         THEN [set |-> <<>>, err |-> "term does not support positive conversion"]
         ELSE [set |-> Intersection(current, allowed.set), err |-> ""]
    ELSE LET forbidden == termForbiddenSet(term) IN
         IF ~forbidden.ok
         THEN [set |-> <<>>, err |-> "term does not support negative conversion"]
         ELSE [set |-> Intersection(current, Complement(forbidden.set)), err |-> ""]

termFromAllowedSet(name, set) ==
    IF singletonVersionFromSet(set) # 0
    THEN [Name |-> name, Condition |-> EqualsCondition(singletonVersionFromSet(set)),
          Positive |-> TRUE]
    ELSE [Name |-> name, Condition |-> NewVersionSetCondition(set), Positive |-> TRUE]

termFromForbiddenSet(name, set) ==
    [Name |-> name, Condition |-> NewVersionSetCondition(set), Positive |-> FALSE]

\* ----------------------------------------------------------------------
\* Incompatibilities (incompatibility.go)
\* ----------------------------------------------------------------------

\* The nil *Incompatibility.
NoIncompatibility == [Kind |-> "nil"]

NewIncompatibilityNoVersions(term) ==
    [Terms |-> <<term>>, Kind |-> "KindNoVersions",
     Cause1 |-> NoIncompatibility, Cause2 |-> NoIncompatibility,
     Package |-> EmptyName, Version |-> 0]

NewIncompatibilityFromDependency(pkg, ver, dependency) ==
    [Terms |-> <<NewTerm(pkg, EqualsCondition(ver)), Negate(dependency)>>,
     Kind |-> "KindFromDependency",
     Cause1 |-> NoIncompatibility, Cause2 |-> NoIncompatibility,
     Package |-> pkg, Version |-> ver]

RECURSIVE dedupTerms(_, _, _)
dedupTerms(terms, seen, deduped) ==
    IF terms = <<>> THEN deduped
    ELSE IF Head(terms).Name \in seen THEN dedupTerms(Tail(terms), seen, deduped)
    ELSE dedupTerms(Tail(terms), seen \cup {Head(terms).Name},
                    Append(deduped, Head(terms)))

NewIncompatibilityConflict(terms, cause1, cause2) ==
    [Terms |-> dedupTerms(terms, {}, <<>>), Kind |-> "KindConflict",
     Cause1 |-> cause1, Cause2 |-> cause2,
     Package |-> EmptyName, Version |-> 0]

\* ----------------------------------------------------------------------
\* Assignments and the partial solution (assignment.go, partial_solution.go)
\* ----------------------------------------------------------------------

\* An assignment; hasAllowed / hasForbidden tell a set from the nil
\* VersionSet of the code.  Assignments are told apart by index where the
\* code compares pointers.
newPartialSolution(root) ==
    [assignments |-> <<>>, perPackage |-> <<>>, decisionLvl |-> 0,
     nextIndex |-> 0, root |-> root]

\* ps.perPackage[name] of a Go map: the nil slice for a missing key.
stackOf(ps, name) ==
    IF name \in DOMAIN ps.perPackage THEN ps.perPackage[name] ELSE <<>>

\* The map m with key k set to v.
mapPut(m, k, v) == [x \in (DOMAIN m) \cup {k} |-> IF x = k THEN v ELSE m[x]]

\* The map m with the value of key k emptied instead of the key deleted.
mapEmptied(m, k) == [x \in DOMAIN m |-> IF x = k THEN <<>> ELSE m[x]]

\* The map m with key k deleted.
mapDelete(m, k) == [x \in (DOMAIN m) \ {k} |-> m[x]]

\* newDecisionAssignment that leaves the allowed set of the assignment
\* unset.
newDecisionAssignmentOpen(ps, name, version, level) ==
    [name |-> name,
     term |-> NewTerm(name, EqualsCondition(version)),
     kind |-> "assignmentDecision",
     allowed |-> <<>>, hasAllowed |-> FALSE,
     forbidden |-> <<>>, hasForbidden |-> FALSE,
     version |-> version,
     cause |-> NoIncompatibility,
     decisionLevel |-> level,
     index |-> ps.nextIndex]

newDecisionAssignment(ps, name, version, level) ==
    [name |-> name,
     term |-> NewTerm(name, EqualsCondition(version)),
     kind |-> "assignmentDecision",
     allowed |-> Singleton(version), hasAllowed |-> TRUE,
     forbidden |-> <<>>, hasForbidden |-> FALSE,
     version |-> version,
     cause |-> NoIncompatibility,
     decisionLevel |-> level,
     index |-> ps.nextIndex]

isDecision(a) == a.kind = "assignmentDecision"

\* partialSolution.append
appendAssignment(ps, assign) ==
    [ps EXCEPT !.assignments = Append(ps.assignments, assign),
               !.perPackage = mapPut(ps.perPackage, assign.name,
                                     Append(stackOf(ps, assign.name), assign)),
               !.nextIndex = ps.nextIndex + 1]

\* partialSolution.latest returns an assignment or nil; the model returns
\* the sequence of zero or one assignment.
latest(ps, name) ==
    LET stack == stackOf(ps, name) IN
    IF Len(stack) = 0 THEN <<>> ELSE <<stack[Len(stack)]>>

RECURSIVE allowedSetLoop(_, _, _)
allowedSetLoop(stack, k, current) ==
    IF k > Len(stack) THEN current
    ELSE LET assign == stack[k] IN
         IF (assign.term.Positive /\ assign.hasAllowed)
            \/ (~assign.term.Positive /\ assign.hasForbidden)
         THEN allowedSetLoop(stack, k + 1,
                             Intersection(current,
                                          IF assign.term.Positive THEN assign.allowed
                                          ELSE Complement(assign.forbidden)))
         ELSE allowedSetLoop(stack, k + 1, current)

allowedSet(ps, name) ==
    LET stack == stackOf(ps, name) IN
    IF Len(stack) = 0 THEN FullVersionSet
    ELSE allowedSetLoop(stack, 1, FullVersionSet)

hasAssignments(ps, name) == Len(stackOf(ps, name)) > 0

\* addDecision returns the new partial solution; the assignment it returns
\* is the last of the log.
addDecision(ps, name, version) ==
    LET ps1 == [ps EXCEPT !.decisionLvl = ps.decisionLvl + 1] IN
    appendAssignment(ps1, newDecisionAssignment(ps1, name, version, ps1.decisionLvl))

seedRoot(ps, name, version) ==
    appendAssignment(ps, newDecisionAssignment(ps, name, version, 0))

\* addDerivation returns (assignment, changed, error); the model returns
\* the new partial solution with them.  assign is a sequence of zero or one
\* assignment, err is "", "errNoAllowedVersions" or the message of another
\* error.
\* The appends of addDerivation without the record of the narrowed set.
addDerivationAppendSingle(ps, term, cause, newAllowed, changed) ==
    LET assign == [name |-> term.Name,
                   term |-> term,
                   kind |-> "assignmentDerivation",
                   allowed |-> IF term.Positive THEN newAllowed ELSE <<>>,
                   hasAllowed |-> term.Positive,
                   forbidden |-> IF term.Positive THEN <<>>
                                 ELSE termForbiddenSet(term).set,
                   hasForbidden |-> ~term.Positive,
                   version |-> 0,
                   cause |-> cause,
                   decisionLevel |-> ps.decisionLvl,
                   index |-> ps.nextIndex]
    IN [ps |-> appendAssignment(ps, assign), assign |-> <<assign>>,
        changed |-> changed, err |-> ""]

\* The appends of addDerivation, once newAllowed is known not to be empty.
addDerivationAppend(ps, term, cause, newAllowed, changed) ==
    LET assign == [name |-> term.Name,
                   term |-> term,
                   kind |-> "assignmentDerivation",
                   allowed |-> IF term.Positive THEN newAllowed ELSE <<>>,
                   hasAllowed |-> term.Positive,
                   forbidden |-> IF term.Positive THEN <<>>
                                 ELSE termForbiddenSet(term).set,
                   hasForbidden |-> ~term.Positive,
                   version |-> 0,
                   cause |-> cause,
                   decisionLevel |-> ps.decisionLvl,
                   index |-> ps.nextIndex]
        ps1 == appendAssignment(ps, assign)
        tightening == [name |-> term.Name,
                       term |-> termFromAllowedSet(term.Name, newAllowed),
                       kind |-> "assignmentDerivation",
                       allowed |-> newAllowed, hasAllowed |-> TRUE,
                       forbidden |-> <<>>, hasForbidden |-> FALSE,
                       version |-> 0,
                       cause |-> cause,
                       decisionLevel |-> ps1.decisionLvl,
                       index |-> ps1.nextIndex]
    IN IF ~term.Positive /\ ~termForbiddenSet(term).ok
       THEN [ps |-> ps, assign |-> <<>>, changed |-> FALSE,
             err |-> "unable to compute forbidden set for term"]
       ELSE IF changed /\ ~term.Positive
       THEN [ps |-> appendAssignment(ps1, tightening), assign |-> <<tightening>>,
             changed |-> TRUE, err |-> ""]
       ELSE [ps |-> ps1, assign |-> <<assign>>, changed |-> changed, err |-> ""]

\* addDerivation that records the assignment before it tests the new
\* allowed set.
addDerivationNarrowedLate(ps, term, cause, currentAllowed, newAllowed) ==
    IF IsEmpty(newAllowed)
    THEN [ps |-> addDerivationAppend(ps, term, cause, newAllowed, FALSE).ps,
          assign |-> <<>>, changed |-> FALSE, err |-> "errNoAllowedVersions"]
    ELSE addDerivationAppend(ps, term, cause, newAllowed,
                             ~setsEqual(currentAllowed, newAllowed))

\* addDerivation from the test of newAllowed on.
addDerivationNarrowed(ps, term, cause, currentAllowed, newAllowed) ==
    IF IsEmpty(newAllowed)
    THEN [ps |-> ps, assign |-> <<>>, changed |-> FALSE,
          err |-> "errNoAllowedVersions"]
    ELSE addDerivationAppend(ps, term, cause, newAllowed,
                             ~setsEqual(currentAllowed, newAllowed))

\* addDerivation from the computation of newAllowed on: the error of
\* applyTermToAllowed is returned as it is.
addDerivationFrom(ps, term, cause, currentAllowed) ==
    LET applied == applyTermToAllowed(currentAllowed, term) IN
    IF applied.err # ""
    THEN [ps |-> ps, assign |-> <<>>, changed |-> FALSE, err |-> applied.err]
    ELSE addDerivationNarrowed(ps, term, cause, currentAllowed, applied.set)

addDerivation(ps, term, cause) ==
    addDerivationFrom(ps, term, cause, allowedSet(ps, term.Name))

RECURSIVE backtrackLoop(_, _)
backtrackLoop(ps, level) ==
    IF Len(ps.assignments) = 0 THEN ps
    ELSE LET last == ps.assignments[Len(ps.assignments)]
             stack == stackOf(ps, last.name)
         IN IF last.decisionLevel <= level THEN ps
            ELSE backtrackLoop(
                   [ps EXCEPT
                      !.assignments = SubSeq(ps.assignments, 1, Len(ps.assignments) - 1),
                      !.perPackage =
                         IF Len(stack) > 0
                         THEN IF Len(stack) = 1
                              THEN mapDelete(ps.perPackage, last.name)
                              ELSE mapPut(ps.perPackage, last.name,
                                          SubSeq(stack, 1, Len(stack) - 1))
                         ELSE ps.perPackage],
                   level)

\* backtrack without the clamp of a negative level.
backtrackUnclamped(ps, level) ==
    [backtrackLoop(ps, level) EXCEPT !.decisionLvl = level]

\* backtrack that hands the indexes of the removed assignments out again.
backtrackReindex(ps, level) ==
    LET lvl == IF level < 0 THEN 0 ELSE level
        kept == backtrackLoop(ps, lvl)
    IN [kept EXCEPT !.decisionLvl = lvl, !.nextIndex = Len(kept.assignments)]

backtrack(ps, level) ==
    LET lvl == IF level < 0 THEN 0 ELSE level IN
    [backtrackLoop(ps, lvl) EXCEPT !.decisionLvl = lvl]

hasDecision(ps, name) ==
    \E k \in 1..Len(stackOf(ps, name)) :
        stackOf(ps, name)[k].kind = "assignmentDecision"

\* isComplete without the loop over the other packages.
isCompleteRootOnly(ps) == hasDecision(ps, ps.root)

\* The orders in which a range over the map m may visit its keys.
MapOrders(m) ==
    {o \in [1..Cardinality(DOMAIN m) -> DOMAIN m] :
        \A i, j \in 1..Cardinality(DOMAIN m) : o[i] = o[j] => i = j}

\* isComplete's loop cut after the first package that is not the root.
RECURSIVE isCompleteFirst(_, _, _)
isCompleteFirst(ps, order, k) ==
    IF k > Len(order) THEN TRUE
    ELSE IF order[k] = ps.root THEN isCompleteFirst(ps, order, k + 1)
    ELSE \E i \in 1..Len(ps.perPackage[order[k]]) :
            ps.perPackage[order[k]][i].kind = "assignmentDecision"

\* isComplete's loop when the range over perPackage visits the packages
\* in the given order, from the k-th on.
RECURSIVE isCompleteRange(_, _, _)
isCompleteRange(ps, order, k) ==
    IF k > Len(order) THEN TRUE
    ELSE IF order[k] = ps.root THEN isCompleteRange(ps, order, k + 1)
    ELSE IF ~(\E i \in 1..Len(ps.perPackage[order[k]]) :
                 ps.perPackage[order[k]][i].kind = "assignmentDecision")
    THEN FALSE
    ELSE isCompleteRange(ps, order, k + 1)

isComplete(ps) ==
    \A name \in DOMAIN ps.perPackage :
        name = ps.root \/
        \E k \in 1..Len(ps.perPackage[name]) :
            ps.perPackage[name][k].kind = "assignmentDecision"

\* nextDecisionCandidate's loop that keeps scanning and returns the
\* undecided package met last instead of the one met first.
RECURSIVE nextDecisionCandidateLast(_, _, _)
nextDecisionCandidateLast(ps, k, seen) ==
    IF k > Len(ps.assignments) THEN EmptyName
    ELSE LET name == ps.assignments[k].name
             rest == nextDecisionCandidateLast(ps, k + 1, seen)
         IN IF rest # EmptyName THEN rest
            ELSE IF name # ps.root /\ ~hasDecision(ps, name) THEN name
            ELSE EmptyName

\* nextDecisionCandidate returns (name, ok); the model returns EmptyName
\* when not ok.
RECURSIVE nextDecisionCandidateLoop(_, _, _)
nextDecisionCandidateLoop(ps, k, seen) ==
    IF k > Len(ps.assignments) THEN EmptyName
    ELSE LET name == ps.assignments[k].name IN
         IF name = ps.root \/ name \in seen
         THEN nextDecisionCandidateLoop(ps, k + 1, seen)
         ELSE IF ~hasDecision(ps, name) THEN name
         ELSE nextDecisionCandidateLoop(ps, k + 1, seen \cup {name})

nextDecisionCandidate(ps) == nextDecisionCandidateLoop(ps, 1, {})

\* termSatisfiedBy that also takes an allowed set disjoint from the
\* required set, or within the forbidden set, for satisfying the term.
termSatisfiedByDisjoint(term, assign) ==
    IF term.Positive
    THEN LET required == termAllowedSet(term).set IN
         IF ~termAllowedSet(term).ok THEN FALSE
         ELSE IF ~assign.hasAllowed THEN FALSE
         ELSE IsSubset(assign.allowed, required) \/ IsDisjoint(assign.allowed, required)
    ELSE LET forbidden == termForbiddenSet(term).set IN
         IF ~termForbiddenSet(term).ok THEN FALSE
         ELSE IF assign.term.Positive
         THEN IF ~assign.hasAllowed THEN FALSE
              ELSE IsDisjoint(assign.allowed, forbidden)
                   \/ IsSubset(assign.allowed, forbidden)
         ELSE IF ~assign.hasForbidden THEN FALSE
              ELSE IsSubset(forbidden, assign.forbidden)

termSatisfiedBy(term, assign) ==
    IF term.Positive
    THEN LET required == termAllowedSet(term).set IN
         IF ~termAllowedSet(term).ok THEN FALSE
         ELSE IF ~assign.hasAllowed THEN FALSE
         ELSE IsSubset(assign.allowed, required)
    ELSE LET forbidden == termForbiddenSet(term).set IN
         IF ~termForbiddenSet(term).ok THEN FALSE
         ELSE IF assign.term.Positive
         THEN IF ~assign.hasAllowed THEN FALSE
              ELSE IsDisjoint(assign.allowed, forbidden)
         ELSE IF ~assign.hasForbidden THEN FALSE
              ELSE IsSubset(forbidden, assign.forbidden)

\* The inner loop of satisfier looking at the bottom of the stack only.
latestSatisfyingBottom(term, stack, i) ==
    IF i < 1 THEN <<>>
    ELSE IF termSatisfiedBy(term, stack[1]) THEN <<stack[1]>>
    ELSE <<>>

\* The latest assignment of the stack that satisfies the term (the inner
\* loop of satisfier), as a sequence of zero or one assignment.
RECURSIVE latestSatisfying(_, _, _)
latestSatisfying(term, stack, i) ==
    IF i < 1 THEN <<>>
    ELSE IF termSatisfiedBy(term, stack[i]) THEN <<stack[i]>>
    ELSE latestSatisfying(term, stack, i - 1)

\* satisfier returns an assignment or nil; the model returns the sequence
\* of zero or one assignment.
RECURSIVE satisfierLoop(_, _, _, _, _)

\* The end of an iteration of satisfier's outer loop: found is the latest
\* assignment that satisfies the k-th term.
satisfierSelectFirst(ps, terms, k, selected, maxIndex, found) ==
    IF found # <<>> /\ selected = <<>>
    THEN satisfierLoop(ps, terms, k + 1, found, found[1].index)
    ELSE satisfierLoop(ps, terms, k + 1, selected, maxIndex)

satisfierSelect(ps, terms, k, selected, maxIndex, found) ==
    IF found # <<>> /\ found[1].index > maxIndex
    THEN satisfierLoop(ps, terms, k + 1, found, found[1].index)
    ELSE satisfierLoop(ps, terms, k + 1, selected, maxIndex)

satisfierLoop(ps, terms, k, selected, maxIndex) ==
    IF k > Len(terms) THEN selected
    ELSE satisfierSelect(ps, terms, k, selected, maxIndex,
                         latestSatisfying(terms[k], stackOf(ps, terms[k].Name),
                                          Len(stackOf(ps, terms[k].Name))))

satisfier(ps, inc) == satisfierLoop(ps, inc.Terms, 1, <<>>, -1)

\* The greater of two levels.
maxLevel(a, b) == IF a > b THEN a ELSE b

\* The stack loop of previousDecisionLevel looking at the top of the stack
\* only.
previousLevelStackTop(term, stack, i, sat, level) ==
    IF i < 1 THEN level
    ELSE IF stack[i].index # sat.index /\ termSatisfiedBy(term, stack[i])
            /\ stack[i].decisionLevel > level
    THEN stack[i].decisionLevel
    ELSE level

RECURSIVE previousLevelStack(_, _, _, _, _)
previousLevelStack(term, stack, i, sat, level) ==
    IF i < 1 THEN level
    ELSE LET assign == stack[i] IN
         IF assign.index = sat.index
         THEN previousLevelStack(term, stack, i - 1, sat, level)
         ELSE IF termSatisfiedBy(term, assign) /\ assign.decisionLevel > level
         THEN previousLevelStack(term, stack, i - 1, sat, assign.decisionLevel)
         ELSE previousLevelStack(term, stack, i - 1, sat, level)

RECURSIVE previousLevelLoop(_, _, _, _, _)
previousLevelLoop(ps, terms, k, sat, level) ==
    IF k > Len(terms) THEN level
    ELSE LET stack == stackOf(ps, terms[k].Name) IN
         previousLevelLoop(ps, terms, k + 1, sat,
                           previousLevelStack(terms[k], stack, Len(stack), sat, level))

\* previousDecisionLevel that always answers 0.
previousDecisionLevelRoot(ps, inc, sat) == 0

\* previousDecisionLevel that does not leave the satisfier out.
previousDecisionLevelInclusive(ps, inc, sat) ==
    previousLevelLoop(ps, inc.Terms, 1, [sat EXCEPT !.index = -1], 0)

previousDecisionLevel(ps, inc, sat) == previousLevelLoop(ps, inc.Terms, 1, sat, 0)

RECURSIVE buildSolutionLoop(_, _, _, _)
buildSolutionLoop(ps, k, seen, result) ==
    IF k > Len(ps.assignments) THEN result
    ELSE LET assign == ps.assignments[k] IN
         IF assign.kind # "assignmentDecision" \/ assign.name \in seen
         THEN buildSolutionLoop(ps, k + 1, seen, result)
         ELSE buildSolutionLoop(ps, k + 1, seen \cup {assign.name},
                                Append(result, [Name |-> assign.name,
                                                Version |-> assign.version]))

\* buildSolution that leaves the root's decision out.
buildSolutionSkipRoot(ps) == buildSolutionLoop(ps, 1, {ps.root}, <<>>)

buildSolution(ps) == buildSolutionLoop(ps, 1, {}, <<>>)

\* ----------------------------------------------------------------------
\* Solver options (options.go)
\* ----------------------------------------------------------------------

defaultMaxSteps == 100000

defaultSolverOptions == [TrackIncompatibilities |-> FALSE, MaxSteps |-> defaultMaxSteps]

WithIncompatibilityTracking(opts, enabled) ==
    [opts EXCEPT !.TrackIncompatibilities = enabled]

WithMaxSteps(opts, n) ==
    IF n <= 0 THEN [opts EXCEPT !.MaxSteps = 0] ELSE [opts EXCEPT !.MaxSteps = n]

\* ----------------------------------------------------------------------
\* The catalog (Source interface; RootSource, InMemorySource,
\* CombinedSource)
\* ----------------------------------------------------------------------

\* Solver.Source is the CombinedSource of a RootSource and a package
\* source.  A source of the model is a record
\*   rootDeps : the terms of the RootSource;
\*   packages : package name -> (version -> sequence of dependency terms),
\*              the table of the package source, an InMemorySource;
\*   fault    : one query of the package source that fails, or NoFault.
\* A query returns [err, ...]; err is "" on success, "PackageNotFoundError",
\* "PackageVersionNotFoundError", or "other" for any other error.
NoFault == [op |-> "none", name |-> EmptyName, kind |-> ""]

NotFoundKinds == {"PackageNotFoundError", "PackageVersionNotFoundError"}

\* The versions in vs that are at most n, ascending (slices.SortFunc).
RECURSIVE sortedVersions(_, _)
sortedVersions(vs, n) ==
    IF n = 0 THEN <<>>
    ELSE IF n \in vs THEN Append(sortedVersions(vs, n - 1), n)
    ELSE sortedVersions(vs, n - 1)

\* The highest version number of a set of versions (0 if none).
maxOf(vs) == IF vs = {} THEN 0 ELSE CHOOSE v \in vs : \A w \in vs : w <= v

\* RootSource.GetVersions and RootSource.GetDependencies.
rootGetVersions(src, name) ==
    IF name # RootName THEN [err |-> "PackageNotFoundError", versions |-> <<>>]
    ELSE [err |-> "", versions |-> <<1>>]

rootGetDependencies(src, name, version) ==
    IF name # RootName THEN [err |-> "PackageNotFoundError", deps |-> <<>>]
    ELSE IF version # 1 THEN [err |-> "PackageVersionNotFoundError", deps |-> <<>>]
    ELSE [err |-> "", deps |-> src.rootDeps]

\* The package source: InMemorySource.GetVersions and GetDependencies,
\* but for the query that fails.
memGetVersions(src, name) ==
    IF src.fault.op = "versions" /\ src.fault.name = name
    THEN [err |-> src.fault.kind, versions |-> <<>>]
    ELSE IF name \notin DOMAIN src.packages
    THEN [err |-> "PackageNotFoundError", versions |-> <<>>]
    ELSE [err |-> "",
          versions |-> sortedVersions(DOMAIN src.packages[name],
                                      maxOf(DOMAIN src.packages[name]))]

memGetDependencies(src, name, version) ==
    IF src.fault.op = "dependencies" /\ src.fault.name = name
    THEN [err |-> src.fault.kind, deps |-> <<>>]
    ELSE IF name \notin DOMAIN src.packages
    THEN [err |-> "PackageNotFoundError", deps |-> <<>>]
    ELSE IF version \notin DOMAIN src.packages[name]
    THEN [err |-> "PackageVersionNotFoundError", deps |-> <<>>]
    ELSE [err |-> "", deps |-> src.packages[name][version]]

\* CombinedSource.GetVersions over the two sources: a source's
\* PackageNotFoundError is skipped, any other error is returned, and the
\* versions found are put together and sorted.
GetVersions(src, name) ==
    LET r == rootGetVersions(src, name)
        m == memGetVersions(src, name)
        ret == r.versions \o m.versions
    IN IF r.err # "" /\ r.err # "PackageNotFoundError"
       THEN [err |-> r.err, versions |-> <<>>]
       ELSE IF m.err # "" /\ m.err # "PackageNotFoundError"
       THEN [err |-> m.err, versions |-> <<>>]
       ELSE IF Len(ret) = 0 THEN [err |-> "PackageNotFoundError", versions |-> <<>>]
       ELSE [err |-> "",
             versions |-> sortedVersions({ret[k] : k \in 1..Len(ret)},
                                         maxOf({ret[k] : k \in 1..Len(ret)}))]

\* CombinedSource.GetDependencies: the first source that answers; a
\* not-found error of a source is skipped, any other error is returned.
GetDependencies(src, name, version) ==
    LET r == rootGetDependencies(src, name, version)
        m == memGetDependencies(src, name, version)
    IN IF r.err = "" THEN r
       ELSE IF r.err \notin NotFoundKinds THEN [err |-> r.err, deps |-> <<>>]
       ELSE IF m.err = "" THEN m
       ELSE IF m.err \notin NotFoundKinds THEN [err |-> m.err, deps |-> <<>>]
       ELSE [err |-> "PackageVersionNotFoundError", deps |-> <<>>]

\* ----------------------------------------------------------------------
\* Solver state (solver_state.go)
\* ----------------------------------------------------------------------

newSolverState(options, root) ==
    [options |-> options,
     partial |-> newPartialSolution(root),
     incompatibilities |-> <<>>,
     learned |-> <<>>,
     queue |-> <<>>,
     queued |-> {}]

\* enqueue that puts the name at the head of the queue.
enqueueFront(st, name) ==
    IF name \in st.queued THEN st
    ELSE [st EXCEPT !.queue = <<name>> \o st.queue,
                    !.queued = st.queued \cup {name}]

enqueue(st, name) ==
    IF name \in st.queued THEN st
    ELSE [st EXCEPT !.queue = Append(st.queue, name),
                    !.queued = st.queued \cup {name}]

\* dequeue that moves the head of the queue to its end instead of
\* removing it.
dequeueRotate(st) ==
    IF Len(st.queue) = 0 THEN [st |-> st, name |-> EmptyName, ok |-> FALSE]
    ELSE [st |-> [st EXCEPT !.queue = Append(Tail(st.queue), Head(st.queue))],
          name |-> Head(st.queue), ok |-> TRUE]

\* dequeue returns (name, ok); the model returns the new state with them.
dequeue(st) ==
    IF Len(st.queue) = 0 THEN [st |-> st, name |-> EmptyName, ok |-> FALSE]
    ELSE [st |-> [st EXCEPT !.queue = Tail(st.queue),
                            !.queued = st.queued \ {Head(st.queue)}],
          name |-> Head(st.queue), ok |-> TRUE]

\* st.incompatibilities[name] of a Go map: the nil slice for a missing key.
watchList(st, name) ==
    IF name \in DOMAIN st.incompatibilities THEN st.incompatibilities[name] ELSE <<>>

RECURSIVE addToWatchLists(_, _, _)
addToWatchLists(index, terms, incomp) ==
    IF terms = <<>> THEN index
    ELSE LET name == Head(terms).Name
             old == IF name \in DOMAIN index THEN index[name] ELSE <<>>
         IN addToWatchLists(mapPut(index, name, Append(old, incomp)), Tail(terms), incomp)

\* addIncompatibility that registers under the first term's package only.
addIncompatibilityFirstTerm(st, incomp) ==
    [st EXCEPT !.incompatibilities = addToWatchLists(st.incompatibilities,
                                                     SubSeq(incomp.Terms, 1, 1), incomp),
               !.learned = IF st.options.TrackIncompatibilities
                           THEN Append(st.learned, incomp) ELSE st.learned]

addIncompatibility(st, incomp) ==
    [st EXCEPT !.incompatibilities = addToWatchLists(st.incompatibilities,
                                                     incomp.Terms, incomp),
               !.learned = IF st.options.TrackIncompatibilities
                           THEN Append(st.learned, incomp) ELSE st.learned]

\* relationForTerm that does not look at whether the package has an
\* assignment.
relationForTermAssigned(term, allowed, hasAssignment) ==
    IF term.Positive
    THEN LET required == termAllowedSet(term).set IN
         IF ~termAllowedSet(term).ok THEN "relationInconclusive"
         ELSE IF IsSubset(allowed, required) THEN "relationSatisfied"
         ELSE IF IsDisjoint(allowed, required) THEN "relationContradicted"
         ELSE "relationInconclusive"
    ELSE LET forbidden == termForbiddenSet(term).set IN
         IF ~termForbiddenSet(term).ok THEN "relationInconclusive"
         ELSE IF IsDisjoint(allowed, forbidden) THEN "relationSatisfied"
         ELSE IF IsSubset(allowed, forbidden) THEN "relationContradicted"
         ELSE "relationInconclusive"

relationForTerm(term, allowed, hasAssignment) ==
    IF term.Positive
    THEN LET required == termAllowedSet(term).set IN
         IF ~termAllowedSet(term).ok THEN "relationInconclusive"
         ELSE IF IsSubset(allowed, required)
         THEN IF hasAssignment THEN "relationSatisfied" ELSE "relationInconclusive"
         ELSE IF IsDisjoint(allowed, required) THEN "relationContradicted"
         ELSE "relationInconclusive"
    ELSE LET forbidden == termForbiddenSet(term).set IN
         IF ~termForbiddenSet(term).ok THEN "relationInconclusive"
         ELSE IF IsDisjoint(allowed, forbidden) THEN "relationSatisfied"
         ELSE IF IsSubset(allowed, forbidden)
         THEN IF hasAssignment THEN "relationContradicted" ELSE "relationInconclusive"
         ELSE "relationInconclusive"

\* evaluateIncompatibility returns (relation, unsatisfied term); the term
\* is a sequence of zero or one term.
RECURSIVE evaluateLoop(_, _, _, _)

\* The switch of evaluateIncompatibility's loop on the relation of the
\* k-th term.
evaluateRelation(ps, terms, k, unsatisfied, rel) ==
    CASE rel = "relationContradicted" ->
           [relation |-> "relationContradicted", unsatisfied |-> <<>>]
      [] rel = "relationSatisfied" -> evaluateLoop(ps, terms, k + 1, unsatisfied)
      [] OTHER ->
           IF unsatisfied # <<>>
           THEN [relation |-> "relationInconclusive", unsatisfied |-> <<>>]
           ELSE evaluateLoop(ps, terms, k + 1, <<terms[k]>>)

evaluateLoop(ps, terms, k, unsatisfied) ==
    IF k > Len(terms)
    THEN IF unsatisfied = <<>>
         THEN [relation |-> "relationSatisfied", unsatisfied |-> <<>>]
         ELSE [relation |-> "relationAlmostSatisfied", unsatisfied |-> unsatisfied]
    ELSE evaluateRelation(ps, terms, k, unsatisfied,
                          relationForTerm(terms[k], allowedSet(ps, terms[k].Name),
                                          hasAssignments(ps, terms[k].Name)))

evaluateIncompatibility(st, inc) == evaluateLoop(st.partial, inc.Terms, 1, <<>>)

\* The body of propagate's loop for one dequeued package: the visit of the
\* incompatibilities that watch it, from the k-th on.  Returns the new
\* state, the conflict found (NoIncompatibility if none) and the error
\* ("" if none).
RECURSIVE propagateVisit(_, _, _)

\* The visit after the derivation d of the k-th incompatibility's
\* unsatisfied term.
propagateDerived(st, incs, k, d) ==
    IF d.err = "errNoAllowedVersions"
    THEN [st |-> st, conflict |-> incs[k], err |-> ""]
    ELSE IF d.err # ""
    THEN [st |-> st, conflict |-> NoIncompatibility, err |-> d.err]
    ELSE LET st1 == [st EXCEPT !.partial = d.ps] IN
         propagateVisit(IF d.changed THEN enqueue(st1, d.assign[1].name) ELSE st1,
                        incs, k + 1)

\* The switch of the visit on the evaluation ev of the k-th incompatibility.
propagateEvaluated(st, incs, k, ev) ==
    CASE ev.relation = "relationSatisfied" ->
           [st |-> st, conflict |-> incs[k], err |-> ""]
      [] ev.relation = "relationAlmostSatisfied" ->
           propagateDerived(st, incs, k,
                            addDerivation(st.partial, Negate(ev.unsatisfied[1]), incs[k]))
      [] OTHER -> propagateVisit(st, incs, k + 1)

propagateVisit(st, incs, k) ==
    IF k > Len(incs) THEN [st |-> st, conflict |-> NoIncompatibility, err |-> ""]
    ELSE propagateEvaluated(st, incs, k, evaluateIncompatibility(st, incs[k]))

\* mergeTerms returns (term, ok).
mergeTerms(a, b) ==
    IF a.Name # b.Name THEN [term |-> a, ok |-> FALSE]
    ELSE IF a.Positive /\ b.Positive
    THEN IF ~termAllowedSet(a).ok \/ ~termAllowedSet(b).ok
         THEN [term |-> a, ok |-> FALSE]
         ELSE
         [term |-> termFromAllowedSet(a.Name,
                      Intersection(termAllowedSet(a).set, termAllowedSet(b).set)),
          ok |-> TRUE]
    ELSE IF ~a.Positive /\ ~b.Positive
    THEN IF ~termForbiddenSet(a).ok \/ ~termForbiddenSet(b).ok
         THEN [term |-> a, ok |-> FALSE]
         ELSE
         [term |-> termFromForbiddenSet(a.Name,
                      Union(termForbiddenSet(a).set, termForbiddenSet(b).set)),
          ok |-> TRUE]
    ELSE [term |-> a, ok |-> FALSE]

\* The first loop of resolveIncompatibility: the map of conflict's terms.
RECURSIVE resolveCollect(_, _, _)
resolveCollect(terms, pkg, m) ==
    IF terms = <<>> THEN m
    ELSE IF Head(terms).Name = pkg THEN resolveCollect(Tail(terms), pkg, m)
    ELSE resolveCollect(Tail(terms), pkg, mapPut(m, Head(terms).Name, Head(terms)))

\* What the second loop stores for a term of cause, given the result of
\* mergeTerms with the map's entry.
resolveMerged(term, merged) == IF merged.ok THEN merged.term ELSE term

\* What the second loop stores for a term of cause: the merge with the
\* map's entry if there is one and mergeTerms succeeds, else the term.
resolveMergeTerm(m, term) ==
    IF term.Name \in DOMAIN m THEN resolveMerged(term, mergeTerms(m[term.Name], term))
    ELSE term

\* The second loop: cause's terms merged into the map.
RECURSIVE resolveMerge(_, _, _)
resolveMerge(terms, pkg, m) ==
    IF terms = <<>> THEN m
    ELSE IF Head(terms).Name = pkg THEN resolveMerge(Tail(terms), pkg, m)
    ELSE resolveMerge(Tail(terms), pkg,
                      mapPut(m, Head(terms).Name, resolveMergeTerm(m, Head(terms))))

\* The ordering loops: the map's terms taken in the order of the names in
\* terms, each removed from the map once taken.
RECURSIVE resolveOrder(_, _, _, _)
resolveOrder(terms, pkg, m, merged) ==
    IF terms = <<>> THEN [m |-> m, merged |-> merged]
    ELSE LET name == Head(terms).Name IN
         IF name = pkg \/ name \notin DOMAIN m
         THEN resolveOrder(Tail(terms), pkg, m, merged)
         ELSE resolveOrder(Tail(terms), pkg, mapDelete(m, name), Append(merged, m[name]))

resolveIncompatibility(conflict, cause, pkg) ==
    LET m == resolveMerge(cause.Terms, pkg, resolveCollect(conflict.Terms, pkg, <<>>))
        first == resolveOrder(conflict.Terms, pkg, m, <<>>)
        second == resolveOrder(cause.Terms, pkg, first.m, first.merged)
    IN NewIncompatibilityConflict(second.merged, conflict, cause)

\* applyConstraint without the errors.Is test: the error of addDerivation
\* is returned as it is.
applyDerivationUnconverted(st, term, cause, d) ==
    IF d.err # ""
    THEN [st |-> st, conflict |-> NoIncompatibility, err |-> d.err]
    ELSE [st |-> enqueue([st EXCEPT !.partial = d.ps], d.assign[1].name),
          conflict |-> NoIncompatibility, err |-> ""]

\* applyConstraint after its call d of addDerivation.
applyDerivation(st, term, cause, d) ==
    IF d.err = "errNoAllowedVersions"
    THEN LET base == NewIncompatibilityNoVersions(term) IN
         [st |-> st,
          conflict |-> NewIncompatibilityConflict(cause.Terms \o base.Terms, base, cause),
          err |-> ""]
    ELSE IF d.err # ""
    THEN [st |-> st, conflict |-> NoIncompatibility, err |-> d.err]
    ELSE [st |-> enqueue([st EXCEPT !.partial = d.ps], d.assign[1].name),
          conflict |-> NoIncompatibility, err |-> ""]

\* applyConstraint returns the conflict (NoIncompatibility if none) and
\* the error ("" if none) with the new state.
applyConstraint(st, term, cause) ==
    applyDerivation(st, term, cause, addDerivation(st.partial, term, cause))

RECURSIVE registerDependencies(_, _, _, _)

\* The end of an iteration of registerDependencies' loop: r is what
\* applyConstraint returned for the head of deps.
registerApplied(r, pkg, version, deps) ==
    IF r.err # "" THEN r
    ELSE IF r.conflict # NoIncompatibility THEN r
    ELSE registerDependencies(r.st, pkg, version, Tail(deps))

registerDependencies(st, pkg, version, deps) ==
    IF deps = <<>> THEN [st |-> st, conflict |-> NoIncompatibility, err |-> ""]
    ELSE LET incomp == NewIncompatibilityFromDependency(pkg, version, Head(deps)) IN
         registerApplied(applyConstraint(addIncompatibility(st, incomp), Head(deps),
                                         incomp),
                         pkg, version, deps)

\* The loop of pickVersion run upward: the lowest version that allowed
\* contains.
lowestAllowed(versions, i, allowed) ==
    LET hits == {k \in 1..i : Contains(allowed, versions[k])} IN
    IF hits = {} THEN 0
    ELSE versions[CHOOSE k \in hits : \A j \in hits : k <= j]

\* The highest version of the list that allowed contains (0 if none): the
\* downward loop of pickVersion.
RECURSIVE highestAllowed(_, _, _)
highestAllowed(versions, i, allowed) ==
    IF i < 1 THEN 0
    ELSE IF Contains(allowed, versions[i]) THEN versions[i]
    ELSE highestAllowed(versions, i - 1, allowed)

\* The answer of pickVersion when the source returned the list versions.
pickFromVersions(versions, allowed) ==
    LET ver == highestAllowed(versions, Len(versions), allowed) IN
    [ver |-> ver, found |-> ver # 0, err |-> "", queried |-> TRUE]

\* pickVersion after the query q, without the errors.As test: every error
\* of the source is returned.
pickQueriedStrict(allowed, q) ==
    IF q.err # ""
    THEN [ver |-> 0, found |-> FALSE, err |-> q.err, queried |-> TRUE]
    ELSE pickFromVersions(q.versions, allowed)

\* pickVersion after the query q, taking every error of the source for
\* not-found.
pickQueriedLenient(allowed, q) ==
    IF q.err # ""
    THEN [ver |-> 0, found |-> FALSE, err |-> "", queried |-> TRUE]
    ELSE pickFromVersions(q.versions, allowed)

\* pickVersion without the errors.As test.
pickVersionStrict(st, src, name) ==
    IF IsEmpty(allowedSet(st.partial, name))
    THEN [ver |-> 0, found |-> FALSE, err |-> "", queried |-> FALSE]
    ELSE pickQueriedStrict(allowedSet(st.partial, name), GetVersions(src, name))

\* pickVersion that takes every error of the source for not-found.
pickVersionLenient(st, src, name) ==
    IF IsEmpty(allowedSet(st.partial, name))
    THEN [ver |-> 0, found |-> FALSE, err |-> "", queried |-> FALSE]
    ELSE pickQueriedLenient(allowedSet(st.partial, name), GetVersions(src, name))

\* pickVersion after the query q of the source's versions.
pickQueried(allowed, q) ==
    IF q.err # ""
    THEN IF q.err \in {"PackageNotFoundError", "PackageVersionNotFoundError"}
         THEN [ver |-> 0, found |-> FALSE, err |-> "", queried |-> TRUE]
         ELSE [ver |-> 0, found |-> FALSE, err |-> q.err, queried |-> TRUE]
    ELSE pickFromVersions(q.versions, allowed)

\* pickVersion after the computation of the allowed set.
pickAllowed(src, name, allowed) ==
    IF IsEmpty(allowed)
    THEN [ver |-> 0, found |-> FALSE, err |-> "", queried |-> FALSE]
    ELSE pickQueried(allowed, GetVersions(src, name))

\* pickVersion returns (version, found, error); queried tells whether the
\* source was asked.
pickVersion(st, src, name) == pickAllowed(src, name, allowedSet(st.partial, name))

\* ----------------------------------------------------------------------
\* Solver.Solve (solver.go)
\* ----------------------------------------------------------------------

VARIABLES
    source,         \* Solver.Source: the catalog
    options,        \* Solver.options
    learned,        \* Solver.learned
    root,           \* the root term passed to Solve
    pc,             \* where the Solve call is
    state,          \* the solverState of the call
    conflict,       \* Solve's local conflict
    propagateSeed,  \* Solve's local propagateSeed
    steps,          \* the main loop's counter
    resolving,      \* resolveConflict's local conflict
    queries,        \* the catalog queries the call has made, in order
    maxStepsArg,    \* the argument given to WithMaxSteps, if any
    result,         \* what Solve returned
    cache,          \* a CachedSource: its two caches and four counters
    upstream,       \* the counting source the CachedSource wraps
    answer,         \* the last call on the CachedSource and what it returned
    setA,           \* a version set a caller of the set operations holds
    setB,           \* a second version set the caller holds
    session         \* what the caller of the Solver has done so far

solverVars == <<source, options, learned, root, pc, state, conflict, propagateSeed,
                steps, resolving, queries, maxStepsArg, result>>

cacheVars == <<cache, upstream, answer>>

setVars == <<setA, setB>>

vars == <<solverVars, cacheVars, setVars, session>>

\* ----------------------------------------------------------------------
\* The caching source (cached_source.go) over a counting source
\* ----------------------------------------------------------------------

\* The calls one CachedSource and the source under it receive at most.
MaxCalls == 3

\* SimpleVersion values in ascending order of strings.Compare: the
\* version of rank 1 is "1", of rank 2 "1@1", of any higher rank "2".
simpleVersionString(version) ==
    CASE version = 1 -> "1"
      [] version = 2 -> "1@1"
      [] OTHER -> "2"

\* The package names looked up through the cache.
CacheNames == {"a", "a@1"}

NoAnswer == [op |-> "none", name |-> EmptyName, version |-> 0, err |-> "", value |-> <<>>]

\* A mockCountingSource over an InMemorySource with the given table.
NewMock(table) ==
    [source |-> [packages |-> table, rootDeps |-> <<>>, fault |-> NoFault],
     versionsCalls |-> 0, depsCalls |-> 0]

\* mockCountingSource.GetVersions and GetDependencies: the mock after
\* the call, and what the InMemorySource returned.
mockGetVersions(mock, name) ==
    [mock |-> [mock EXCEPT !.versionsCalls = @ + 1],
     r |-> memGetVersions(mock.source, name)]

mockGetDependencies(mock, name, version) ==
    [mock |-> [mock EXCEPT !.depsCalls = @ + 1],
     r |-> memGetDependencies(mock.source, name, version)]

\* NewCachedSource: empty caches, counters at zero.
NewCachedSource ==
    [versionsCache |-> <<>>, versionsCalls |-> 0, versionsCacheHits |-> 0,
     depsCache |-> <<>>, depsCalls |-> 0, depsCacheHits |-> 0]

\* The key of the dependency cache: fmt.Sprintf("%s@%s", name, version).
depsKey(name, version) == name \o "@" \o simpleVersionString(version)

\* CachedSource.GetVersions(name).
CachedGetVersions ==
    /\ cache.versionsCalls + cache.depsCalls < MaxCalls
    /\ upstream.versionsCalls + upstream.depsCalls < MaxCalls
    /\ \E name \in CacheNames :
          LET counted == [cache EXCEPT !.versionsCalls = @ + 1]
              m == mockGetVersions(upstream, name)
          IN IF name \in DOMAIN cache.versionsCache
             THEN /\ cache' = [counted EXCEPT !.versionsCacheHits = @ + 1]
                  /\ answer' = [op |-> "versions", name |-> name, version |-> 0,
                                err |-> "", value |-> cache.versionsCache[name]]
                  /\ UNCHANGED upstream
             ELSE /\ upstream' = m.mock
                  /\ IF m.r.err # ""
                     THEN /\ cache' = counted
                          /\ answer' = [op |-> "versions", name |-> name, version |-> 0,
                                        err |-> m.r.err, value |-> <<>>]
                     ELSE /\ cache' = [counted EXCEPT !.versionsCache =
                                           (name :> m.r.versions) @@ @]
                          /\ answer' = [op |-> "versions", name |-> name, version |-> 0,
                                        err |-> "", value |-> m.r.versions]
    /\ UNCHANGED <<solverVars, setVars, session>>

\* CachedSource.GetDependencies(name, version).
CachedGetDependencies ==
    /\ cache.versionsCalls + cache.depsCalls < MaxCalls
    /\ upstream.versionsCalls + upstream.depsCalls < MaxCalls
    /\ \E name \in CacheNames, version \in 1..MaxVer :
          LET counted == [cache EXCEPT !.depsCalls = @ + 1]
              key == depsKey(name, version)
              m == mockGetDependencies(upstream, name, version)
          IN IF key \in DOMAIN cache.depsCache
             THEN /\ cache' = [counted EXCEPT !.depsCacheHits = @ + 1]
                  /\ answer' = [op |-> "dependencies", name |-> name,
                                version |-> version, err |-> "",
                                value |-> cache.depsCache[key]]
                  /\ UNCHANGED upstream
             ELSE /\ upstream' = m.mock
                  /\ IF m.r.err # ""
                     THEN /\ cache' = counted
                          /\ answer' = [op |-> "dependencies", name |-> name,
                                        version |-> version, err |-> m.r.err,
                                        value |-> <<>>]
                     ELSE /\ cache' = [counted EXCEPT !.depsCache = (key :> m.r.deps) @@ @]
                          /\ answer' = [op |-> "dependencies", name |-> name,
                                        version |-> version, err |-> "",
                                        value |-> m.r.deps]
    /\ UNCHANGED <<solverVars, setVars, session>>

\* ClearCache that empties the caches and keeps the counters.
ClearCacheKeepStats ==
    /\ cache' = [cache EXCEPT !.versionsCache = <<>>, !.depsCache = <<>>]
    /\ answer' = [NoAnswer EXCEPT !.op = "clear"]
    /\ UNCHANGED <<upstream, solverVars, setVars, session>>

\* CachedSource.ClearCache.
ClearCache ==
    /\ cache' = [versionsCache |-> <<>>, versionsCalls |-> 0, versionsCacheHits |-> 0,
                 depsCache |-> <<>>, depsCalls |-> 0, depsCacheHits |-> 0]
    /\ answer' = [NoAnswer EXCEPT !.op = "clear"]
    /\ UNCHANGED <<upstream, solverVars, setVars, session>>

NoResult == [kind |-> "none"]

\* extractDecisionVersion without the test of the term's polarity.
extractDecisionVersionAnyPolarity(term) ==
    IF term.Condition.kind = "equals"
    THEN [version |-> term.Condition.version, err |-> ""]
    ELSE [version |-> 0, err |-> "root must pin exact version"]

\* extractDecisionVersion returns (version, error); err is "" or the
\* message of the VersionError.
extractDecisionVersion(term) ==
    IF ~term.Positive THEN [version |-> 0, err |-> "root term must be positive"]
    ELSE IF term.Condition.kind = "equals"
    THEN [version |-> term.Condition.version, err |-> ""]
    ELSE [version |-> 0, err |-> "root must pin exact version"]

fallbackTerm(incomp) ==
    IF incomp = NoIncompatibility \/ Len(incomp.Terms) = 0
    THEN NewTerm("$$root", NilCondition)
    ELSE IF ~incomp.Terms[1].Positive THEN Negate(incomp.Terms[1])
    ELSE incomp.Terms[1]

\* Solver.fail that never looks at TrackIncompatibilities.
failOpaque(opts, oldLearned, st, incomp) ==
    [learned |-> oldLearned,
     result |-> [kind |-> "ErrNoSolutionFound", Term |-> fallbackTerm(incomp)]]

\* Solver.fail that adds the incompatibilities of the solve to the list
\* earlier solves left.
failAccumulate(opts, oldLearned, st, incomp) ==
    IF opts.TrackIncompatibilities
    THEN [learned |-> oldLearned \o st.learned,
          result |-> [kind |-> "NoSolutionError",
                      Incompatibility |->
                          IF incomp = NoIncompatibility
                          THEN NewIncompatibilityNoVersions(fallbackTerm(NoIncompatibility))
                          ELSE incomp]]
    ELSE [learned |-> oldLearned,
          result |-> [kind |-> "ErrNoSolutionFound", Term |-> fallbackTerm(incomp)]]

\* Solver.fail: the error returned and the new value of Solver.learned.
fail(opts, oldLearned, st, incomp) ==
    IF opts.TrackIncompatibilities
    THEN [learned |-> st.learned,
          result |-> [kind |-> "NoSolutionError",
                      Incompatibility |->
                          IF incomp = NoIncompatibility
                          THEN NewIncompatibilityNoVersions(fallbackTerm(NoIncompatibility))
                          ELSE incomp]]
    ELSE [learned |-> oldLearned,
          result |-> [kind |-> "ErrNoSolutionFound", Term |-> fallbackTerm(incomp)]]

\* Solve after the registration reg of the root's dependencies.
solveRegistered(ex, reg) ==
    IF reg.err # ""
    THEN /\ state' = reg.st
         /\ queries' = Append(queries, [op |-> "dependencies", name |-> root.Name,
                                        version |-> ex.version])
         /\ result' = [kind |-> "DependencyError", Package |-> root.Name,
                       Version |-> ex.version, Err |-> reg.err]
         /\ pc' = "done"
         /\ UNCHANGED conflict
    ELSE /\ state' = enqueue(reg.st, root.Name)
         /\ queries' = Append(queries, [op |-> "dependencies", name |-> root.Name,
                                        version |-> ex.version])
         /\ conflict' = reg.conflict
         /\ pc' = "top"
         /\ UNCHANGED result

\* Solve after the root decision: q is the answer of the source for the
\* root's dependencies.
solveSeeded(ex, st1, q) ==
    IF q.err # ""
    THEN /\ state' = st1
         /\ queries' = Append(queries, [op |-> "dependencies", name |-> root.Name,
                                        version |-> ex.version])
         /\ result' = [kind |-> "DependencyError", Package |-> root.Name,
                       Version |-> ex.version, Err |-> q.err]
         /\ pc' = "done"
         /\ UNCHANGED conflict
    ELSE solveRegistered(ex, registerDependencies(st1, root.Name, ex.version, q.deps))

\* Solve after extractDecisionVersion.
solveExtracted(st0, ex) ==
    IF ex.err # ""
    THEN /\ state' = st0
         /\ result' = [kind |-> "VersionError", Package |-> root.Name,
                       Message |-> ex.err]
         /\ pc' = "done"
         /\ UNCHANGED <<conflict, queries>>
    ELSE solveSeeded(ex,
                     [st0 EXCEPT !.partial = seedRoot(st0.partial, root.Name, ex.version)],
                     GetDependencies(source, root.Name, ex.version))

\* Solve up to the main loop: the fresh state, the root decision and the
\* root's dependencies.
SolveStart ==
    /\ pc = "idle"
    /\ solveExtracted(newSolverState(options, root.Name), extractDecisionVersion(root))
    /\ UNCHANGED <<cacheVars, setVars, session>>
    /\ UNCHANGED <<source, options, learned, root, propagateSeed, steps, resolving,
                   maxStepsArg>>

\* The step cap test one iteration late.
limitReachedLate(opts, stepCount) == opts.MaxSteps > 0 /\ stepCount > opts.MaxSteps

\* The step cap test without the test that a cap is set.
limitReachedUnguarded(opts, stepCount) == stepCount >= opts.MaxSteps

\* The step cap test at the head of the main loop.
limitReached(opts, stepCount) == opts.MaxSteps > 0 /\ stepCount >= opts.MaxSteps

\* The head of the main loop: the step cap, then either conflict
\* resolution or propagation (whose first lines enqueue the seed).
LoopTop ==
    /\ pc = "top"
    /\ IF limitReached(options, steps)
       THEN /\ result' = [kind |-> "ErrIterationLimit", Steps |-> options.MaxSteps]
            /\ pc' = "done"
            /\ UNCHANGED <<state, propagateSeed, resolving>>
       ELSE IF conflict # NoIncompatibility
       THEN /\ resolving' = conflict
            /\ pc' = "resolve"
            /\ UNCHANGED <<state, propagateSeed, result>>
       ELSE /\ state' = IF propagateSeed # EmptyName THEN enqueue(state, propagateSeed)
                        ELSE state
            /\ propagateSeed' = EmptyName
            /\ pc' = "propagate"
            /\ UNCHANGED <<resolving, result>>
    /\ UNCHANGED <<cacheVars, setVars, session>>
    /\ UNCHANGED <<source, options, learned, root, conflict, steps, queries, maxStepsArg>>

\* resolveConflict's iteration for the satisfier assign, a derivation or a
\* decision above level 0.
resolveAssignment(assign, prevLevel) ==
    IF isDecision(assign) /\ prevLevel < assign.decisionLevel
    THEN /\ state' = addIncompatibility(
                        [state EXCEPT !.partial = backtrack(state.partial, prevLevel)],
                        resolving)
         /\ conflict' = NoIncompatibility
         /\ propagateSeed' = IF assign.name # EmptyName THEN assign.name
                             ELSE propagateSeed
         /\ steps' = steps + 1
         /\ pc' = "top"
         /\ UNCHANGED <<learned, resolving, result>>
    ELSE IF assign.cause = NoIncompatibility
    THEN /\ result' = [kind |-> "InternalError",
                       Message |-> "derived assignment missing cause"]
         /\ pc' = "done"
         /\ UNCHANGED <<state, conflict, propagateSeed, steps, learned, resolving>>
    ELSE /\ resolving' = resolveIncompatibility(resolving, assign.cause, assign.name)
         /\ UNCHANGED <<state, conflict, propagateSeed, steps, learned, pc, result>>

\* Solve's return of s.fail(state, err.incompatibility).
resolveFailed(f) ==
    /\ result' = f.result
    /\ learned' = f.learned
    /\ pc' = "done"
    /\ UNCHANGED <<state, conflict, propagateSeed, steps, resolving>>

\* resolveConflict that reports failure for a nil satisfier only.
resolveSatisfierNilOnly(sat) ==
    IF sat = <<>>
    THEN resolveFailed(fail(options, learned, state, resolving))
    ELSE resolveAssignment(sat[1],
                           previousDecisionLevel(state.partial, resolving, sat[1]))

\* resolveConflict's iteration once the satisfier sat is known.
resolveSatisfier(sat) ==
    IF sat = <<>> \/ (sat[1].decisionLevel = 0 /\ isDecision(sat[1]))
    THEN resolveFailed(fail(options, learned, state, resolving))
    ELSE resolveAssignment(sat[1],
                           previousDecisionLevel(state.partial, resolving, sat[1]))

\* One iteration of resolveConflict's loop, with what Solve does when the
\* call returns.
ResolveStep ==
    /\ pc = "resolve"
    /\ resolveSatisfier(satisfier(state.partial, resolving))
    /\ UNCHANGED <<cacheVars, setVars, session>>
    /\ UNCHANGED <<source, options, root, queries, maxStepsArg>>

\* propagate's iteration after the visit v of the dequeued package.
propagateVisited(v) ==
    IF v.err # ""
    THEN /\ state' = v.st
         /\ result' = [kind |-> "Error", Err |-> v.err]
         /\ pc' = "done"
         /\ UNCHANGED <<conflict, steps>>
    ELSE IF v.conflict # NoIncompatibility
    THEN /\ state' = v.st
         /\ conflict' = v.conflict
         /\ steps' = steps + 1
         /\ pc' = "top"
         /\ UNCHANGED result
    ELSE /\ state' = v.st
         /\ UNCHANGED <<conflict, steps, pc, result>>

\* propagate's iteration after the dequeue d.
propagateDequeued(d) ==
    IF ~d.ok
    THEN /\ pc' = "decide"
         /\ UNCHANGED <<state, conflict, steps, result>>
    ELSE propagateVisited(propagateVisit(d.st, watchList(d.st, d.name), 1))

\* One iteration of propagate's loop: a dequeue and the visit of the
\* package's incompatibilities.
PropagateStep ==
    /\ pc = "propagate"
    /\ propagateDequeued(dequeue(state))
    /\ UNCHANGED <<cacheVars, setVars, session>>
    /\ UNCHANGED <<source, options, learned, root, propagateSeed, resolving, queries,
                   maxStepsArg>>

\* The iteration's end after the registration reg of the decided
\* version's dependencies.
decideRegistered(nextPkg, ver, q1, reg) ==
    IF reg.err # ""
    THEN /\ state' = reg.st
         /\ queries' = Append(q1, [op |-> "dependencies", name |-> nextPkg,
                                   version |-> ver])
         /\ result' = [kind |-> "DependencyError", Package |-> nextPkg,
                       Version |-> ver, Err |-> reg.err]
         /\ pc' = "done"
         /\ UNCHANGED <<conflict, steps>>
    ELSE /\ state' = IF reg.conflict # NoIncompatibility THEN reg.st
                     ELSE enqueue(reg.st, nextPkg)
         /\ conflict' = reg.conflict
         /\ queries' = Append(q1, [op |-> "dependencies", name |-> nextPkg,
                                   version |-> ver])
         /\ steps' = steps + 1
         /\ pc' = "top"
         /\ UNCHANGED result

\* The iteration after the decision: st1 is the state with the decision,
\* dq the answer of the source for the version's dependencies.
decideDecided(nextPkg, ver, q1, st1, dq) ==
    IF dq.err # ""
    THEN /\ state' = st1
         /\ queries' = Append(q1, [op |-> "dependencies", name |-> nextPkg,
                                   version |-> ver])
         /\ result' = [kind |-> "DependencyError", Package |-> nextPkg,
                       Version |-> ver, Err |-> dq.err]
         /\ pc' = "done"
         /\ UNCHANGED <<conflict, steps>>
    ELSE decideRegistered(nextPkg, ver, q1,
                          registerDependencies(st1, nextPkg, ver, dq.deps))

\* The iteration when pickVersion found no version: the learned
\* incompatibility becomes the conflict.
decideLearned(q1, incomp) ==
    /\ conflict' = incomp
    /\ state' = addIncompatibility(state, incomp)
    /\ queries' = q1
    /\ steps' = steps + 1
    /\ pc' = "top"
    /\ UNCHANGED result

\* The incompatibility learned when no version of nextPkg is allowed: nv
\* is the no-versions incompatibility, support the latest assignment.
noVersionsConflict(nextPkg, nv, support) ==
    IF support # <<>> /\ support[1].cause # NoIncompatibility
    THEN resolveIncompatibility(nv, support[1].cause, nextPkg)
    ELSE nv

\* The iteration after pickVersion: q1 is the log of queries with the
\* query pickVersion made, if any.
decidePicked(nextPkg, pick, q1) ==
    IF pick.err # ""
    THEN /\ result' = [kind |-> "SourceError", Err |-> pick.err]
         /\ queries' = q1
         /\ pc' = "done"
         /\ UNCHANGED <<state, conflict, steps>>
    ELSE IF ~pick.found
    THEN decideLearned(q1,
            noVersionsConflict(nextPkg,
               NewIncompatibilityNoVersions(
                  termFromAllowedSet(nextPkg, allowedSet(state.partial, nextPkg))),
               latest(state.partial, nextPkg)))
    ELSE decideDecided(nextPkg, pick.ver, q1,
                       [state EXCEPT !.partial = addDecision(state.partial, nextPkg,
                                                             pick.ver)],
                       GetDependencies(source, nextPkg, pick.ver))

\* The log of queries after pickVersion.
pickQueries(nextPkg, pick) ==
    IF pick.queried
    THEN Append(queries, [op |-> "versions", name |-> nextPkg, version |-> 0])
    ELSE queries

\* The iteration after nextDecisionCandidate.
decideCandidate(nextPkg, pick) == decidePicked(nextPkg, pick, pickQueries(nextPkg, pick))

\* The rest of a main-loop iteration after a propagation without conflict:
\* completion, or the next decision and its dependencies.
decideNext(nextPkg) ==
    IF isComplete(state.partial) \/ nextPkg = EmptyName
    THEN /\ result' = [kind |-> "Solution", Solution |-> buildSolution(state.partial)]
         /\ pc' = "done"
         /\ UNCHANGED <<state, conflict, steps, queries>>
    ELSE decideCandidate(nextPkg, pickVersion(state, source, nextPkg))

DecideStep ==
    /\ pc = "decide"
    /\ decideNext(nextDecisionCandidate(state.partial))
    /\ UNCHANGED <<cacheVars, setVars, session>>
    /\ UNCHANGED <<source, options, learned, root, propagateSeed, resolving,
                   maxStepsArg>>

\* ----------------------------------------------------------------------
\* The inputs of a solve and the specification
\* ----------------------------------------------------------------------

\* The packages a catalog may hold besides the root.
Pkgs == {"a", "b", "c"}

AnyCondition == NewVersionSetCondition(FullVersionSet)

\* The conditions dependency terms are built from.
CondPool == {EqualsCondition(v) : v \in 1..MaxVer} \cup {AnyCondition}

\* The dependency terms a catalog entry may carry.
DepTerms == {NewTerm(q, c) : q \in Pkgs, c \in CondPool}

\* How many versions 1..n of each package the catalog lists (0: the
\* catalog does not hold the package).
Avails == [Pkgs -> 0..MaxVer]

FullAvail == [p \in Pkgs |-> MaxVer]

\* The catalog entries <<package, version>> of an availability.
Slots(av) == {s \in Pkgs \X (1..MaxVer) : s[2] <= av[s[1]]}

\* The assignments of one dependency term to at most k entries; no
\* package depends on itself.
EdgeMaps(av, k) ==
    UNION {{f \in [E -> DepTerms] : \A s \in E : f[s].Name # s[1]} :
              E \in {X \in SUBSET Slots(av) : Cardinality(X) <= k}}

\* The table InMemorySource.AddPackage calls build: one call per entry,
\* with the entry's dependency list.
AddPackage(av, f) ==
    [p \in {x \in Pkgs : av[x] > 0} |->
        [v \in 1..av[p] |-> IF <<p, v>> \in DOMAIN f THEN <<f[<<p, v>>]>> ELSE <<>>]]

PackageTables(avs, k) ==
    UNION {{AddPackage(av, f) : f \in EdgeMaps(av, k)} : av \in avs}

\* The requirements RootSource.AddPackage calls record.
RootDepLists == {<<NewTerm("a", AnyCondition)>>,
                 <<NewTerm("a", AnyCondition), NewTerm("b", AnyCondition)>>}

\* Fully stocked catalogs in which one entry depends on a package through
\* a condition of the caller's own type.
CustomTables ==
    {AddPackage(FullAvail, [s \in {x[1]} |-> NewTerm(x[2], CustomCondition)]) :
        x \in {y \in Slots(FullAvail) \X Pkgs : y[2] # y[1][1]}}

\* The root requires a package through such a condition.
CustomRootDeps == <<NewTerm("a", CustomCondition)>>

\* One query (op, package) that fails with an error of the given kind.
Faults ==
    [op : {"versions"}, name : Pkgs, kind : {"other"} \cup NotFoundKinds]
        \cup [op : {"dependencies"}, name : Pkgs, kind : {"other", "PackageNotFoundError"}]

\* RootSource.Term; a root term that pins a version RootSource does not
\* have; and the terms Solve must reject.
RootTerm == NewTerm(RootName, EqualsCondition(1))

UnknownRootTerm == NewTerm(RootName, EqualsCondition(2))

InvalidRootTerms ==
    {NewNegativeTerm(RootName, EqualsCondition(1)),
     NewTerm(RootName, AnyCondition),
     NewNegativeTerm(RootName, AnyCondition),
     NewTerm(RootName, NilCondition)}

\* NewSolverWithOptions: the options applied to the defaults.  maxSteps
\* is the argument of WithMaxSteps, <<>> if the option is not given.
NewSolverWithOptions(track, maxSteps) ==
    LET o == WithIncompatibilityTracking(defaultSolverOptions, track)
    IN IF maxSteps = <<>> THEN o ELSE WithMaxSteps(o, maxSteps[1])

\* The solves explored.  MainInputs: every small catalog, without step
\* cap, with incompatibility tracking.  PlainInputs: the catalogs with one
\* dependency less, with the default of no tracking.  FaultInputs: fully
\* stocked catalogs with a failing query.  RootInputs: invalid root terms
\* and the root at an unknown version.
\* CapInputs: every step cap up to MaxStepCap, and the non-positive
\* arguments of WithMaxSteps.  CustomInputs: a dependency of a catalog
\* entry, or of the root, has a condition of the caller's own type.
SourcesOf(tables, faults) ==
    {[packages |-> t, rootDeps |-> r, fault |-> f] :
        t \in tables, r \in RootDepLists, f \in faults}

MainInputs ==
    [source : SourcesOf(PackageTables(Avails, MaxEdges), {NoFault}),
     root : {RootTerm}, track : {TRUE}, maxSteps : {<<0>>}]

PlainInputs ==
    [source : SourcesOf(PackageTables(Avails, MaxEdges - 1), {NoFault}),
     root : {RootTerm}, track : {FALSE}, maxSteps : {<<>>}]

FaultInputs ==
    [source : SourcesOf(PackageTables({FullAvail}, MaxEdges - 1), Faults),
     root : {RootTerm}, track : {FALSE}, maxSteps : {<<>>}]

RootInputs ==
    [source : SourcesOf(PackageTables({FullAvail}, MaxEdges - 1), {NoFault}),
     root : InvalidRootTerms \cup {UnknownRootTerm}, track : BOOLEAN,
     maxSteps : {<<>>}]

CapInputs ==
    [source : SourcesOf(PackageTables({FullAvail}, MaxEdges - 1), {NoFault}),
     root : {RootTerm}, track : BOOLEAN,
     maxSteps : {<<n>> : n \in (-1)..MaxStepCap}]

CustomInputs ==
    [source : SourcesOf(CustomTables, {NoFault})
                 \cup {[packages |-> t, rootDeps |-> CustomRootDeps, fault |-> NoFault] :
                          t \in PackageTables({FullAvail}, 0)},
     root : {RootTerm}, track : BOOLEAN, maxSteps : {<<>>, <<MaxStepCap>>}]

Inputs ==
    MainInputs \cup PlainInputs \cup FaultInputs \cup RootInputs \cup CapInputs
        \cup CustomInputs

\* The caller has called nothing yet: no Solve has returned, no package
\* was added to the sources and no option was set after the solver was
\* constructed.
NewSession == [returned |-> <<>>, adds |-> 0, configures |-> 0]

\* The state at the call of Solve on one of the inputs.
InitOf(inputs) ==
    /\ session = NewSession
    /\ \E inp \in inputs :
          /\ source = inp.source
          /\ root = inp.root
          /\ maxStepsArg = inp.maxSteps
          /\ options = NewSolverWithOptions(inp.track, inp.maxSteps)
    /\ learned = <<>>
    /\ pc = "idle"
    /\ state = newSolverState(options, EmptyName)
    /\ conflict = NoIncompatibility
    /\ propagateSeed = EmptyName
    /\ steps = 0
    /\ resolving = NoIncompatibility
    /\ queries = <<>>
    /\ result = NoResult

\* No CachedSource is in use: a fresh one over an empty source.
NoCache ==
    /\ cache = NewCachedSource
    /\ upstream = NewMock(<<>>)
    /\ answer = NoAnswer

\* No caller of the set operations: two empty sets.
NoSets ==
    /\ setA = EmptySet
    /\ setB = EmptySet

Init == InitOf(Inputs) /\ NoCache /\ NoSets

Next ==
    \/ SolveStart
    \/ LoopTop
    \/ ResolveStep
    \/ PropagateStep
    \/ DecideStep

Spec == Init /\ [][Next]_vars

\* ----------------------------------------------------------------------
\* A solver used for several solves (solver.go)
\* ----------------------------------------------------------------------

\* The Solve calls one caller makes on a solver, and the calls of
\* AddPackage on the solver's sources and of Configure it makes after the
\* construction.
MaxSolves == 2
MaxAdds == 1
MaxConfigures == 1

\* Solver.Configure with one option, between two calls of Solve:
\* WithIncompatibilityTracking (EnableIncompatibilityTracking and
\* DisableIncompatibilityTracking are this) or WithMaxSteps.  WithLogger
\* changes nothing a solve depends on.
Configure ==
    /\ pc = "idle"
    /\ session.configures < MaxConfigures
    /\ \/ \E enabled \in BOOLEAN :
             options' = WithIncompatibilityTracking(options, enabled)
       \/ \E n \in (-1)..MaxStepCap :
             options' = WithMaxSteps(options, n)
    /\ session' = [session EXCEPT !.configures = session.configures + 1]
    /\ UNCHANGED <<cacheVars, setVars>>
    /\ UNCHANGED <<source, learned, root, pc, state, conflict, propagateSeed, steps,
                   resolving, queries, maxStepsArg, result>>

\* Solver.ClearIncompatibilities, between two calls of Solve.
ClearIncompatibilities ==
    /\ pc = "idle"
    /\ learned # <<>>
    /\ learned' = <<>>
    /\ UNCHANGED <<cacheVars, setVars, session>>
    /\ UNCHANGED <<source, options, root, pc, state, conflict, propagateSeed, steps,
                   resolving, queries, maxStepsArg, result>>

\* Solver.GetIncompatibilities.
GetIncompatibilities == learned

\* The dependency lists given to InMemorySource.AddPackage for a version
\* of the package: none, or any version of another package.
AddedDeps(name) ==
    {<<>>} \cup {<<NewTerm(q, AnyCondition)>> : q \in Pkgs \ {name}}

\* InMemorySource.AddPackage(name, version, deps) on the package source of
\* the solver, between two calls of Solve: the entry is created or
\* overwritten.
SourceAddPackage ==
    /\ pc = "idle"
    /\ session.adds < MaxAdds
    /\ \E name \in Pkgs, version \in 1..MaxVer :
          \E deps \in AddedDeps(name) :
             LET packages == source.packages
                 had == IF name \in DOMAIN packages THEN DOMAIN packages[name] ELSE {}
                 versions == [v \in had \cup {version} |->
                                 IF v = version THEN deps ELSE packages[name][v]]
             IN source' = [source EXCEPT !.packages =
                              [n \in DOMAIN packages \cup {name} |->
                                  IF n = name THEN versions ELSE packages[n]]]
    /\ session' = [session EXCEPT !.adds = session.adds + 1]
    /\ UNCHANGED <<cacheVars, setVars>>
    /\ UNCHANGED <<options, learned, root, pc, state, conflict, propagateSeed, steps,
                   resolving, queries, maxStepsArg, result>>

\* RootSource.AddPackage(name, condition) on the root source of the
\* solver, between two calls of Solve: one more requirement of the root.
RootAddPackage ==
    /\ pc = "idle"
    /\ session.adds < MaxAdds
    /\ \E name \in Pkgs, condition \in CondPool :
          source' = [source EXCEPT !.rootDeps = Append(source.rootDeps,
                                                        NewTerm(name, condition))]
    /\ session' = [session EXCEPT !.adds = session.adds + 1]
    /\ UNCHANGED <<cacheVars, setVars>>
    /\ UNCHANGED <<options, learned, root, pc, state, conflict, propagateSeed, steps,
                   resolving, queries, maxStepsArg, result>>

\* The root terms a caller passes to Solve: the root of the root source,
\* the root at a version the root source does not have, and a term Solve
\* rejects.
SessionRoots == {RootTerm, UnknownRootTerm, NewNegativeTerm(RootName, EqualsCondition(1))}

\* Solve has returned; the caller notes what it called Solve with, what
\* Solve returned and what GetIncompatibilities returns, and chooses the
\* root of its next call.  The locals of the call are gone, the fields of
\* the Solver stay.
SolveReturn ==
    /\ pc = "done"
    /\ Len(session.returned) + 1 < MaxSolves
    /\ pc' = "idle"
    /\ session' = [session EXCEPT !.returned =
                      Append(session.returned,
                             [options |-> options, source |-> source, root |-> root,
                              result |-> result, learned |-> GetIncompatibilities])]
    /\ \E next \in SessionRoots : root' = next
    /\ state' = newSolverState(defaultSolverOptions, EmptyName)
    /\ conflict' = NoIncompatibility
    /\ propagateSeed' = EmptyName
    /\ steps' = 0
    /\ resolving' = NoIncompatibility
    /\ queries' = <<>>
    /\ result' = NoResult
    /\ UNCHANGED <<cacheVars, setVars>>
    /\ UNCHANGED <<source, options, learned, maxStepsArg>>

\* The solvers followed over several solves: the catalogs with one
\* version of a, none of b and of c and at most MaxEdges - 1 dependencies,
\* with tracking on or off at construction.
SessionTables ==
    PackageTables({[p \in Pkgs |-> IF p = "a" THEN 1 ELSE 0]}, MaxEdges - 1)

SessionInputs ==
    [source : SourcesOf(SessionTables, {NoFault}),
     root : {RootTerm}, track : BOOLEAN, maxSteps : {<<>>}]

SessionInit == InitOf(SessionInputs) /\ NoCache /\ NoSets

SessionNext ==
    \/ Next
    \/ Configure
    \/ ClearIncompatibilities
    \/ SourceAddPackage
    \/ RootAddPackage
    \/ SolveReturn

SessionSpec == SessionInit /\ [][SessionNext]_vars

\* ----------------------------------------------------------------------
\* What a solution of the dependency problem is
\* ----------------------------------------------------------------------

\* Term.SatisfiedBy (term.go); version 0 stands for the nil version of a
\* package that is not selected.
SatisfiedBy(t, ver) ==
    IF ver = 0 THEN ~t.Positive
    ELSE IF t.Condition.kind = "nil" THEN t.Positive
    ELSE LET satisfied == CASE t.Condition.kind = "equals" -> t.Condition.version = ver
                            [] t.Condition.kind = "custom" -> TRUE
                            [] OTHER -> Contains(t.Condition.set, ver)
         IN IF t.Positive THEN satisfied ELSE ~satisfied

\* The versions the catalog lists for a package.
Listed(src, name) ==
    LET q == GetVersions(src, name) IN
    IF q.err # "" THEN {} ELSE {q.versions[k] : k \in 1..Len(q.versions)}

\* The dependency terms of a package version (none if the query fails).
DepsOf(src, name, ver) ==
    LET q == GetDependencies(src, name, ver) IN
    IF q.err # "" THEN {} ELSE {q.deps[k] : k \in 1..Len(q.deps)}

\* sel maps every selected package (the root included) to its version.
\* It is a valid selection if it takes the root at rootVer and catalog
\* versions elsewhere, and satisfies every dependency term of every
\* selected version.
ValidSelection(src, rootVer, sel) ==
    /\ RootName \in DOMAIN sel
    /\ sel[RootName] = rootVer
    /\ \A p \in DOMAIN sel :
          /\ p # RootName => sel[p] \in Listed(src, p)
          /\ GetDependencies(src, p, sel[p]).err = ""
          /\ \A t \in DepsOf(src, p, sel[p]) :
                SatisfiedBy(t, IF t.Name \in DOMAIN sel THEN sel[t.Name] ELSE 0)

Selections ==
    UNION {[P \cup {RootName} -> 1..MaxVer] : P \in SUBSET Pkgs}

Satisfiable(src, rootVer) == \E sel \in Selections : ValidSelection(src, rootVer, sel)

\* The solution Solve returned, as a selection.
SolutionNames == {result.Solution[k].Name : k \in 1..Len(result.Solution)}

SolutionSel ==
    [n \in SolutionNames |->
        (CHOOSE k \in 1..Len(result.Solution) : result.Solution[k].Name = n)]

SolutionVersion(n) == result.Solution[SolutionSel[n]].Version

\* ----------------------------------------------------------------------
\* Properties of Solve
\* ----------------------------------------------------------------------

\* The versions chosen by the returned solution, with the root at the
\* version its term pins.
Chosen ==
    [n \in SolutionNames \cup {root.Name} |->
        IF n = root.Name THEN root.Condition.version ELSE SolutionVersion(n)]

Failed == result.kind \in {"NoSolutionError", "ErrNoSolutionFound"}

\* The decisions of the partial solution, oldest first.
Decisions == SelectSeq(state.partial.assignments, isDecision)

\* The error the source gave to a logged query.
QueryErr(q) ==
    IF q.op = "versions" THEN GetVersions(source, q.name).err
    ELSE GetDependencies(source, q.name, q.version).err

LastQuery == queries[Len(queries)]

\* C1: a returned solution names every package once, at a version the
\* catalog lists; every package a dependency term of the root or of a
\* selected version names is in the solution, and the version selected
\* for it satisfies the term.
C1_SolutionSound ==
    result.kind = "Solution" =>
        /\ \A i, j \in 1..Len(result.Solution) :
              result.Solution[i].Name = result.Solution[j].Name => i = j
        /\ \A n \in SolutionNames : SolutionVersion(n) \in Listed(source, n)
        /\ \A n \in DOMAIN Chosen :
              /\ GetDependencies(source, n, Chosen[n]).err = ""
              /\ \A t \in DepsOf(source, n, Chosen[n]) :
                    /\ t.Name \in SolutionNames
                    /\ SatisfiedBy(t, Chosen[t.Name])

\* A solution of three packages and the root in which some package is
\* not at its highest catalog version.
C1_Witness ==
    /\ result.kind = "Solution"
    /\ Cardinality(SolutionNames \ {root.Name}) >= 3
    /\ \E n \in SolutionNames \ {root.Name} :
          \E v \in Listed(source, n) : v > SolutionVersion(n)

\* C2: Solve reports failure only when no selection of catalog versions
\* satisfies the dependency terms of the root and of every selected
\* version.
C2_FailsOnlyIfUnsatisfiable ==
    Failed => ~Satisfiable(source, root.Condition.version)

\* C3 (as claimed): with a positive step cap the outcome is a solution, a
\* NoSolution failure or an IterationLimit failure.
C3_ThreeOutcomes ==
    options.MaxSteps > 0 =>
        result.kind \in {"none", "Solution", "NoSolutionError", "ErrNoSolutionFound",
                         "ErrIterationLimit"}

\* The errors of applyTermToAllowed for a term whose condition has no
\* version set.
ConversionErrors ==
    {"term does not support positive conversion",
     "term does not support negative conversion"}

\* The dependency list the last query returned holds a term whose
\* condition has no version set.
LastQueryUnconvertible ==
    \E t \in DepsOf(source, LastQuery.name, LastQuery.version) :
        ~conditionSet(t.Condition).ok

\* C3 (amended): with a positive step cap n the main loop completes at
\* most n iterations: once n are completed no further iteration runs, the
\* call returns at the head of the loop.  The outcome is a solution, a
\* NoSolution failure, an IterationLimit failure, the invalid-root error,
\* a DependencyError or the error of a versions query, and the call has
\* returned exactly when it has one.  A DependencyError follows a
\* dependencies query: either the query failed, or it succeeded and the
\* registration of its terms failed on a term whose condition has no
\* version set.  The invalid-root error is returned for a root term the
\* version cannot be extracted from, the error of a versions query after
\* a failed versions query.
C3_EndsWithinCap ==
    options.MaxSteps > 0 =>
        /\ steps <= options.MaxSteps
        /\ steps = options.MaxSteps => pc \in {"top", "done"}
        /\ (pc = "done" /\ steps = options.MaxSteps) => result.kind = "ErrIterationLimit"
        /\ result.kind \in {"none", "Solution", "NoSolutionError", "ErrNoSolutionFound",
                            "ErrIterationLimit", "VersionError", "DependencyError",
                            "SourceError"}
        /\ (pc = "done") = (result.kind # "none")
        /\ result.kind = "DependencyError" =>
              /\ queries # <<>>
              /\ LastQuery.op = "dependencies"
              /\ IF QueryErr(LastQuery) # "" THEN result.Err = QueryErr(LastQuery)
                 ELSE result.Err \in ConversionErrors /\ LastQueryUnconvertible
        /\ result.kind = "SourceError" =>
              /\ queries # <<>>
              /\ LastQuery.op = "versions"
              /\ QueryErr(LastQuery) # ""
        /\ result.kind = "VersionError" => extractDecisionVersion(root).err # ""

\* A capped solve that ended, after a full iteration, with the
\* DependencyError of a registration: the dependencies query of the
\* decided version succeeded and a term of its list has a condition
\* without version set.
C3_Witness ==
    /\ options.MaxSteps > 0
    /\ steps >= 1
    /\ result.kind = "DependencyError"
    /\ QueryErr(LastQuery) = ""
    /\ result.Err \in ConversionErrors

\* C4 (as claimed): the solution is the decisions of the non-root
\* packages in decision order, and has no entry for the root.
C4_NoRootEntry ==
    result.kind = "Solution" =>
        /\ \A k \in 1..Len(result.Solution) : result.Solution[k].Name # root.Name
        /\ Len(result.Solution) = Len(Decisions) - 1
        /\ \A k \in 1..Len(result.Solution) :
              /\ result.Solution[k].Name = Decisions[k + 1].name
              /\ result.Solution[k].Version = Decisions[k + 1].version

\* C4 (amended): the solution lists one (name, version) pair per package
\* that received a decision, in decision order; the root's seeded decision
\* is the first entry.
C4_DecisionsInOrder ==
    result.kind = "Solution" =>
        /\ Len(result.Solution) = Len(Decisions)
        /\ \A k \in 1..Len(result.Solution) :
              /\ result.Solution[k].Name = Decisions[k].name
              /\ result.Solution[k].Version = Decisions[k].version
        /\ \A i, j \in 1..Len(result.Solution) :
              result.Solution[i].Name = result.Solution[j].Name => i = j
        /\ result.Solution[1] = [Name |-> root.Name, Version |-> root.Condition.version]
        /\ \A k \in 1..Len(state.partial.assignments) :
              state.partial.assignments[k].name \in SolutionNames

\* A solution with the root and three packages.
C4_Witness ==
    /\ result.kind = "Solution"
    /\ Len(result.Solution) = 4
    /\ result.Solution[1].Name = root.Name

\* C5: a step that makes a decision for a package picks the highest
\* version of the catalog's list that the package's allowed set, as it is
\* before the decision, contains.
C5_Step ==
    (pc = "decide" /\ state'.partial.decisionLvl = state.partial.decisionLvl + 1) =>
        LET d == state'.partial.assignments[Len(state.partial.assignments) + 1]
            admissible == {v \in Listed(source, d.name) :
                              Contains(allowedSet(state.partial, d.name), v)}
        IN /\ isDecision(d)
           /\ d.decisionLevel = state'.partial.decisionLvl
           /\ d.name = nextDecisionCandidate(state.partial)
           /\ d.version \in admissible
           /\ \A w \in admissible : w <= d.version

C5_HighestAllowed == [][C5_Step]_vars

\* A decision on a version below the highest the catalog lists.
C5_Witness ==
    \E k \in 1..Len(state.partial.assignments) :
        LET d == state.partial.assignments[k] IN
        /\ isDecision(d)
        /\ d.name # root.Name
        /\ \E v \in Listed(source, d.name) : v > d.version

\* The incompatibility c stems from a NoVersions incompatibility of
\* package n: it is one, or its first cause is.
FromNoVersions(c, n) ==
    LET nv == IF c.Kind = "KindConflict" THEN c.Cause1 ELSE c IN
    /\ nv.Kind = "KindNoVersions"
    /\ Len(nv.Terms) = 1
    /\ nv.Terms[1].Name = n

\* C6: when the versions query for the package being decided fails with
\* not-found, the step returns nothing: it makes no decision, registers a
\* conflict that stems from a NoVersions incompatibility of the package,
\* and goes back to the head of the loop with that conflict pending.
C6_Step ==
    LET n == nextDecisionCandidate(state.partial) IN
    (/\ pc = "decide"
     /\ ~isComplete(state.partial)
     /\ n # EmptyName
     /\ ~IsEmpty(allowedSet(state.partial, n))
     /\ GetVersions(source, n).err \in NotFoundKinds) =>
        /\ result' = NoResult
        /\ pc' = "top"
        /\ queries' = Append(queries, [op |-> "versions", name |-> n, version |-> 0])
        /\ state'.partial = state.partial
        /\ conflict' # NoIncompatibility
        /\ FromNoVersions(conflict', n)
        /\ \A k \in 1..Len(conflict'.Terms) :
              \E i \in 1..Len(watchList(state', conflict'.Terms[k].Name)) :
                  watchList(state', conflict'.Terms[k].Name)[i] = conflict'

C6_NotFoundIsConflict ==
    /\ [][C6_Step]_vars
    /\ [](result.kind = "SourceError" => result.Err \notin NotFoundKinds)

\* The versions query of the last decision step failed with not-found
\* and a conflict is pending.
C6_Witness ==
    /\ pc = "top"
    /\ conflict # NoIncompatibility
    /\ queries # <<>>
    /\ LastQuery.op = "versions"
    /\ QueryErr(LastQuery) \in NotFoundKinds

\* C7 (as claimed): a query that fails with an error other than not-found
\* makes Solve return a DependencyError with the package and the error.
C7_AlwaysWrapped ==
    (queries # <<>> /\ QueryErr(LastQuery) \notin NotFoundKinds \cup {""}) =>
        /\ result.kind = "DependencyError"
        /\ result.Package = LastQuery.name
        /\ result.Err = QueryErr(LastQuery)

\* C7 (amended): an error of the dependencies query, of any kind, makes
\* Solve return at once a DependencyError with the package, the version
\* and the error; an error of the versions query other than not-found
\* makes Solve return that error itself, not wrapped.  Solve returns the
\* error of a versions query only after such a query failed, and a
\* DependencyError only after a failed query or with the error of a term
\* that has no version set.
C7_DependenciesWrapped ==
    /\ (queries # <<>> /\ LastQuery.op = "dependencies" /\ QueryErr(LastQuery) # "") =>
          /\ pc = "done"
          /\ result = [kind |-> "DependencyError", Package |-> LastQuery.name,
                       Version |-> LastQuery.version, Err |-> QueryErr(LastQuery)]
    /\ (queries # <<>> /\ LastQuery.op = "versions"
            /\ QueryErr(LastQuery) \notin NotFoundKinds \cup {""}) =>
          /\ pc = "done"
          /\ result = [kind |-> "SourceError", Err |-> QueryErr(LastQuery)]
    /\ result.kind = "SourceError" => (queries # <<>> /\ QueryErr(LastQuery) # "")
    /\ result.kind = "DependencyError" =>
          /\ queries # <<>>
          /\ QueryErr(LastQuery) # "" \/ result.Err \in ConversionErrors

\* The dependencies query of a decided package failed.
C7_Witness ==
    /\ result.kind = "DependencyError"
    /\ result.Package # root.Name
    /\ result.Err = "other"
    /\ steps >= 1

\* The incompatibility is a derivation: a NoVersions or FromDependency
\* fact without causes, the latter a dependency the catalog gave, or a
\* Conflict whose two causes are derivations.
RECURSIVE IsDerivation(_)
IsDerivation(inc) ==
    IF inc.Kind = "KindConflict"
    THEN /\ inc.Cause1 # NoIncompatibility
         /\ inc.Cause2 # NoIncompatibility
         /\ IsDerivation(inc.Cause1)
         /\ IsDerivation(inc.Cause2)
    ELSE /\ inc.Kind \in {"KindNoVersions", "KindFromDependency"}
         /\ inc.Cause1 = NoIncompatibility
         /\ inc.Cause2 = NoIncompatibility
         /\ inc.Kind = "KindFromDependency" =>
               \E t \in DepsOf(source, inc.Package, inc.Version) :
                   inc = NewIncompatibilityFromDependency(inc.Package, inc.Version, t)

RECURSIVE Depth(_)
Depth(inc) ==
    IF inc.Kind # "KindConflict" THEN 0
    ELSE LET a == Depth(inc.Cause1)
             b == Depth(inc.Cause2)
         IN 1 + (IF a > b THEN a ELSE b)

\* C8: a failure of conflict resolution is returned, with tracking, as a
\* NoSolutionError whose incompatibility is the failed conflict, a
\* derivation down to catalog facts; without tracking, as an
\* ErrNoSolutionFound with one positive term of the root package and
\* nothing else.
C8_FailureShape ==
    /\ result.kind = "NoSolutionError" =>
          /\ options.TrackIncompatibilities
          /\ DOMAIN result = {"kind", "Incompatibility"}
          /\ result.Incompatibility = resolving
          /\ IsDerivation(result.Incompatibility)
    /\ result.kind = "ErrNoSolutionFound" =>
          /\ ~options.TrackIncompatibilities
          /\ DOMAIN result = {"kind", "Term"}
          /\ result.Term.Positive
          /\ result.Term.Name = root.Name
          /\ result.Term = fallbackTerm(resolving)
    /\ (pc = "done" /\ resolving # NoIncompatibility
            /\ result.kind \notin {"ErrIterationLimit", "Solution", "DependencyError",
                                   "SourceError"}) => Failed

\* A tracked failure whose incompatibility has a derivation of depth two.
C8_Witness ==
    /\ result.kind = "NoSolutionError"
    /\ Depth(result.Incompatibility) >= 2

\* C9: a root term that is negative or has no exact-version condition
\* makes Solve return the invalid-root error in its first step, with no
\* assignment, no incompatibility and no catalog query.
C9_InvalidRoot ==
    (pc # "idle" /\ (~root.Positive \/ root.Condition.kind # "equals")) =>
        /\ pc = "done"
        /\ result.kind = "VersionError"
        /\ result.Package = root.Name
        /\ state.partial.assignments = <<>>
        /\ DOMAIN state.partial.perPackage = {}
        /\ DOMAIN state.incompatibilities = {}
        /\ state.learned = <<>>
        /\ queries = <<>>
        /\ steps = 0

\* Solve returned for a negative root term.
C9_Witness ==
    /\ ~root.Positive
    /\ root.Condition.kind = "equals"
    /\ result.kind = "VersionError"

\* C10: IterationLimit is returned only under a positive cap, after the
\* loop completed exactly that many iterations without returning; the
\* reported step count is the cap given to WithMaxSteps; under a cap of 0,
\* or a non-positive argument of WithMaxSteps, it is never returned.
C10_IterationLimit ==
    /\ result.kind = "ErrIterationLimit" =>
          /\ options.MaxSteps > 0
          /\ steps = options.MaxSteps
          /\ result.Steps = options.MaxSteps
          /\ maxStepsArg # <<>> => result.Steps = maxStepsArg[1]
    /\ (maxStepsArg # <<>> /\ maxStepsArg[1] <= 0) =>
          /\ options.MaxSteps = 0
          /\ result.kind # "ErrIterationLimit"
    /\ (result.kind # "none" /\ (options.MaxSteps = 0 \/ steps < options.MaxSteps)) =>
          result.kind # "ErrIterationLimit"

\* A solve stopped by the largest cap.
C10_Witness ==
    /\ result.kind = "ErrIterationLimit"
    /\ result.Steps = MaxStepCap
    /\ maxStepsArg = <<MaxStepCap>>

\* C11, the steps: when the derivation of the first dependency term of a
\* newly decided version leaves no allowed version, the step does not end
\* the solve; it hands the main loop the conflict built from the
\* dependency's incompatibility and the NoVersions incompatibility of the
\* term.  And when conflict resolution ends the solve, it ends it with a
\* no-solution failure.
C11_Step ==
    /\ (pc = "decide" /\ state'.partial.decisionLvl = state.partial.decisionLvl + 1) =>
          LET d == state'.partial.assignments[Len(state.partial.assignments) + 1]
              q == GetDependencies(source, d.name, d.version)
              incomp == NewIncompatibilityFromDependency(d.name, d.version, q.deps[1])
          IN (q.err = "" /\ q.deps # <<>>
                /\ addDerivation(addDecision(state.partial, d.name, d.version),
                                 q.deps[1], incomp).err = "errNoAllowedVersions") =>
                /\ pc' = "top"
                /\ result' = NoResult
                /\ conflict' = NewIncompatibilityConflict(
                                   incomp.Terms,
                                   NewIncompatibilityNoVersions(q.deps[1]), incomp)
    /\ (pc = "resolve" /\ pc' = "done") =>
          result'.kind \in {"NoSolutionError", "ErrNoSolutionFound"}

\* C11: the NoAllowedVersions signal of a derivation is never what Solve
\* returns, bare or wrapped in a DependencyError; it becomes a conflict
\* for the main loop, and an unresolvable conflict ends the solve with a
\* no-solution failure.
C11_SignalBecomesConflict ==
    /\ [](result.kind # "Error")
    /\ [](result.kind = "DependencyError" => result.Err # "errNoAllowedVersions")
    /\ [][C11_Step]_vars

\* The main loop holds the conflict applyConstraint made of the signal:
\* its causes are the NoVersions incompatibility of a dependency term and
\* the dependency's own incompatibility, and the derivation of the term
\* still leaves no allowed version.
C11_Witness ==
    /\ pc = "top"
    /\ conflict # NoIncompatibility
    /\ conflict.Kind = "KindConflict"
    /\ conflict.Cause1.Kind = "KindNoVersions"
    /\ conflict.Cause2.Kind = "KindFromDependency"
    /\ conflict.Terms = conflict.Cause2.Terms
    /\ addDerivation(state.partial, conflict.Cause1.Terms[1], conflict.Cause2).err
          = "errNoAllowedVersions"

\* The names of a sequence of terms.
TermNames(terms) == [k \in 1..Len(terms) |-> terms[k].Name]

\* The names of the sequence, but pkg, each at its first occurrence.
RECURSIVE FirstOccurrences(_, _, _)
FirstOccurrences(names, pkg, seen) ==
    IF names = <<>> THEN <<>>
    ELSE IF Head(names) = pkg \/ Head(names) \in seen
    THEN FirstOccurrences(Tail(names), pkg, seen)
    ELSE <<Head(names)>> \o FirstOccurrences(Tail(names), pkg, seen \cup {Head(names)})

\* C12, the steps: the step taken after a propagation is the one every
\* order of the range over the per-package map gives (the solution is
\* returned when and only when the completion test, run in that order,
\* succeeds or no package is left to decide), and the terms of a
\* resolvent stand in the order of their packages' first occurrences in
\* the conflict and then in the cause, whatever the order of the map that
\* merges them.
C12_Step ==
    /\ pc = "decide" =>
          \A o \in MapOrders(state.partial.perPackage) :
              (isCompleteRange(state.partial, o, 1)
                  \/ nextDecisionCandidate(state.partial) = EmptyName)
              <=> (pc' = "done" /\ result' = [kind |-> "Solution",
                                             Solution |-> buildSolution(state.partial)])
    /\ (pc = "resolve" /\ pc' = "resolve") =>
          LET sat == satisfier(state.partial, resolving)[1] IN
          TermNames(resolving'.Terms) =
              FirstOccurrences(TermNames(resolving.Terms \o sat.cause.Terms),
                               sat.name, {})

\* C12: a solve is a function of its root term, its options and the
\* catalog's answers.  Every step of Solve computes one successor from
\* the current state; the two places where a map is involved, the
\* completion test and the merge of a resolvent's terms, give the same
\* result in every iteration order.
C12_Deterministic == [][C12_Step]_vars

\* The completion test at a point where the order of the range decides
\* how far the loop runs, after a resolvent of two terms was learned: two
\* packages besides the root, one decided and one not.
C12_Witness ==
    /\ pc = "decide"
    /\ \E p, q \in DOMAIN state.partial.perPackage \ {root.Name} :
          /\ hasDecision(state.partial, p)
          /\ ~hasDecision(state.partial, q)
    /\ \E k \in 1..Len(state.learned) :
          /\ state.learned[k].Kind = "KindConflict"
          /\ Len(state.learned[k].Terms) >= 2

\* The catalog versions of a package that its allowed set contains.
ListedAllowed(n) ==
    {v \in Listed(source, n) : Contains(allowedSet(state.partial, n), v)}

\* C13 (as stated): when Solve returns a solution, every version the
\* catalog lists for a package of the solution lies in the package's
\* final allowed set, and the chosen version is the highest of them.
C13_AllListedAllowed ==
    result.kind = "Solution" =>
        \A n \in SolutionNames :
            /\ Listed(source, n) \subseteq ListedAllowed(n)
            /\ SolutionVersion(n) \in ListedAllowed(n)
            /\ \A v \in ListedAllowed(n) : v <= SolutionVersion(n)

\* C13 (amended): when Solve returns a solution, the final allowed set
\* of every package of the solution is the singleton of the chosen
\* version; the chosen version is listed by the catalog, and it is the
\* only, hence the highest, catalog version the final allowed set
\* contains.
C13_ChosenIsFinalAllowed ==
    result.kind = "Solution" =>
        \A n \in SolutionNames :
            /\ allowedSet(state.partial, n) = Singleton(SolutionVersion(n))
            /\ SolutionVersion(n) \in Listed(source, n)
            /\ ListedAllowed(n) = {SolutionVersion(n)}

\* A solution with a package chosen at a version below another the
\* catalog lists, while a second package is at its highest version.
C13_Witness ==
    /\ result.kind = "Solution"
    /\ \E n, m \in SolutionNames \ {root.Name} :
          /\ n # m
          /\ Cardinality(Listed(source, n)) >= 2
          /\ \E v \in Listed(source, n) : v > SolutionVersion(n)
          /\ Cardinality(Listed(source, m)) >= 2
          /\ \A v \in Listed(source, m) : v <= SolutionVersion(m)

\* C14: when Solve has run with incompatibility tracking disabled, the
\* list GetIncompatibilities returns after the call is empty, whatever
\* solves, changes of the tracking option and clearings came before.
C14_UntrackedLeavesNone ==
    (pc = "done" /\ ~options.TrackIncompatibilities) => GetIncompatibilities = <<>>

\* ----------------------------------------------------------------------
\* Lookups through a CachedSource
\* ----------------------------------------------------------------------

\* The dependency lists of the entries under the cache.
CacheDepLists == {<<>>, <<NewTerm("b", AnyCondition)>>}

\* The tables of the InMemorySource under the cache: versions 1..n of each
\* name in CacheNames (none for n = 0), each with one of the lists.
CacheTables ==
    UNION {[{x \in CacheNames : av[x] > 0} -> UNION {[1..n -> CacheDepLists] : n \in 1..MaxVer}]
              : av \in [CacheNames -> 0..MaxVer]}

\* A solver that is never called, beside the CachedSource.
IdleInputs ==
    [source : SourcesOf({<<>>}, {NoFault}), root : {RootTerm}, track : {FALSE},
     maxSteps : {<<>>}]

CacheInit ==
    /\ InitOf(IdleInputs)
    /\ cache = NewCachedSource
    /\ \E table \in CacheTables : upstream = NewMock(table)
    /\ answer = NoAnswer
    /\ NoSets

CacheNext ==
    \/ CachedGetVersions
    \/ CachedGetDependencies
    \/ ClearCache

CacheSpec == CacheInit /\ [][CacheNext]_vars

\* What one step of the CachedSource must do.  A lookup of a stored key
\* leaves the source under it alone and returns what is stored; a lookup
\* of a key that is not stored calls the source under it once and returns
\* its answer, storing it if and only if it is no error; no lookup drops or
\* changes what is stored; ClearCache leaves both caches empty and the
\* four counters at zero.
C15_VersionsStep ==
    (answer'.op = "versions" /\ cache'.versionsCalls = cache.versionsCalls + 1) =>
        LET name == answer'.name
        IN IF name \in DOMAIN cache.versionsCache
           THEN /\ upstream' = upstream
                /\ answer'.err = ""
                /\ answer'.value = cache.versionsCache[name]
                /\ cache'.versionsCache = cache.versionsCache
           ELSE /\ upstream'.versionsCalls = upstream.versionsCalls + 1
                /\ upstream'.depsCalls = upstream.depsCalls
                /\ answer'.err = memGetVersions(upstream.source, name).err
                /\ IF answer'.err = ""
                   THEN /\ answer'.value = memGetVersions(upstream.source, name).versions
                        /\ DOMAIN cache'.versionsCache =
                              DOMAIN cache.versionsCache \cup {name}
                        /\ cache'.versionsCache[name] = answer'.value
                        /\ \A n \in DOMAIN cache.versionsCache :
                              cache'.versionsCache[n] = cache.versionsCache[n]
                   ELSE cache'.versionsCache = cache.versionsCache

C15_DependenciesStep ==
    (answer'.op = "dependencies" /\ cache'.depsCalls = cache.depsCalls + 1) =>
        LET name == answer'.name
            version == answer'.version
            key == depsKey(name, version)
        IN IF key \in DOMAIN cache.depsCache
           THEN /\ upstream' = upstream
                /\ answer'.err = ""
                /\ answer'.value = cache.depsCache[key]
                /\ cache'.depsCache = cache.depsCache
           ELSE /\ upstream'.depsCalls = upstream.depsCalls + 1
                /\ upstream'.versionsCalls = upstream.versionsCalls
                /\ answer'.err = memGetDependencies(upstream.source, name, version).err
                /\ IF answer'.err = ""
                   THEN /\ answer'.value =
                              memGetDependencies(upstream.source, name, version).deps
                        /\ DOMAIN cache'.depsCache = DOMAIN cache.depsCache \cup {key}
                        /\ cache'.depsCache[key] = answer'.value
                        /\ \A k \in DOMAIN cache.depsCache :
                              cache'.depsCache[k] = cache.depsCache[k]
                   ELSE cache'.depsCache = cache.depsCache

C15_ClearStep ==
    answer'.op = "clear" =>
        /\ DOMAIN cache'.versionsCache = {}
        /\ DOMAIN cache'.depsCache = {}
        /\ cache'.versionsCalls = 0 /\ cache'.versionsCacheHits = 0
        /\ cache'.depsCalls = 0 /\ cache'.depsCacheHits = 0
        /\ upstream' = upstream

\* C15: between two ClearCache calls the source under a CachedSource is
\* called successfully at most once per name (GetVersions) and per name
\* and version (GetDependencies), later calls return what was stored,
\* failed lookups are not stored, and ClearCache zeroes the counters and
\* makes the next lookup of any key reach the source under it again.
C15_CacheContract ==
    [][/\ C15_VersionsStep
       /\ C15_DependenciesStep
       /\ C15_ClearStep
       /\ (answer'.op = "versions" => cache'.depsCache = cache.depsCache)
       /\ (answer'.op = "dependencies" => cache'.versionsCache = cache.versionsCache)]_vars

\* C15 witness: after a ClearCache a key fetched before is fetched again
\* from the source under the cache and then answered from the cache.
C15_Witness ==
    /\ answer.op = "dependencies"
    /\ answer.err = ""
    /\ cache.depsCalls = 2
    /\ cache.depsCacheHits = 1
    /\ upstream.depsCalls = 2
    /\ DOMAIN cache.depsCache = {depsKey(answer.name, answer.version)}

\* ----------------------------------------------------------------------
\* What the learned incompatibilities say
\* ----------------------------------------------------------------------

\* The assignments of versions: every package and the root at a version,
\* one version no catalog lists included, or at 0 for not selected.
VersionAssignments == [Pkgs \cup {RootName} -> 0..(MaxVer + 1)]

\* The assignment satisfies every term of the incompatibility, that is, it
\* violates the incompatibility.
Violates(sel, inc) ==
    \A k \in 1..Len(inc.Terms) : SatisfiedBy(inc.Terms[k], sel[inc.Terms[k].Name])

EntailedByCauses(inc) ==
    /\ inc.Cause1 # NoIncompatibility
    /\ inc.Cause2 # NoIncompatibility
    /\ \A sel \in VersionAssignments :
          (~Violates(sel, inc.Cause1) /\ ~Violates(sel, inc.Cause2)) => ~Violates(sel, inc)

\* The incompatibilities the solve holds: the conflict under resolution
\* and the registered ones.
Registered ==
    UNION {{state.incompatibilities[n][k] : k \in 1..Len(state.incompatibilities[n])} :
              n \in DOMAIN state.incompatibilities}

Held ==
    Registered \cup ({conflict, resolving} \ {NoIncompatibility})

\* C16: every incompatibility of kind Conflict a solve creates is entailed
\* by its two causes: an assignment of versions that violates neither
\* cause does not satisfy all terms of the incompatibility.
C16_LearnedEntailed ==
    \A inc \in Held : inc.Kind = "KindConflict" => EntailedByCauses(inc)

\* ----------------------------------------------------------------------
\* Backtracking
\* ----------------------------------------------------------------------

\* The assignments of the log at decision level lvl or below, in order.
KeptLog(ps, lvl) == SelectSeq(ps.assignments, LAMBDA a : a.decisionLevel <= lvl)

\* The partial solution built by inserting the assignments of log, and
\* nothing else, in order: decisions as addDecision and seedRoot insert
\* them, derivations by addDerivation with their term and cause.
RECURSIVE Reinserted(_, _, _)
Reinserted(log, k, ps) ==
    IF k > Len(log) THEN ps
    ELSE LET a == log[k]
             at == [ps EXCEPT !.decisionLvl = a.decisionLevel, !.nextIndex = a.index]
         IN IF isDecision(a)
            THEN Reinserted(log, k + 1,
                            appendAssignment(at, newDecisionAssignment(
                                at, a.name, a.version, a.decisionLevel)))
            ELSE Reinserted(log, k + 1, addDerivation(at, a.term, a.cause).ps)

BacktrackSound(ps, level) ==
    LET lvl == IF level > 0 THEN level ELSE 0
        after == backtrack(ps, level)
        kept == KeptLog(ps, lvl)
        only == Reinserted(kept, 1, newPartialSolution(ps.root))
    IN /\ after.assignments = kept
       /\ after.decisionLvl = lvl
       /\ \A name \in Pkgs \cup {RootName} :
             allowedSet(after, name) = allowedSet(only, name)

\* The levels backtrack is asked for: every level of the partial solution,
\* one above, and a negative one.
BacktrackLevels == (-1)..(state.partial.decisionLvl + 1)

\* A step of conflict resolution that backjumps.
C17_Step ==
    (pc = "resolve" /\ pc' = "top") =>
        \E level \in BacktrackLevels :
            /\ state'.partial = backtrack(state.partial, level)
            /\ BacktrackSound(state.partial, level)

\* C17: after backtrack(L), for any integer L, the log holds exactly the
\* assignments that had decision level at most max(L, 0), in their order,
\* the decision level is max(L, 0), and the allowed set of every package
\* is the one obtained by inserting only those assignments.
C17_BacktrackSound ==
    [][C17_Step /\ \A level \in BacktrackLevels : BacktrackSound(state.partial, level)]_vars

\* C17 witness: conflict resolution has backjumped: assignments were taken
\* off the log and assignments besides the root's decision are left.
C17_Witness ==
    /\ pc = "top"
    /\ state.partial.nextIndex > Len(state.partial.assignments)
    /\ Len(state.partial.assignments) > 1
    /\ state.partial.assignments[1].kind = "assignmentDecision"
    /\ state.partial.assignments[1].name = RootName

\* ----------------------------------------------------------------------
\* The satisfier
\* ----------------------------------------------------------------------

\* The assignment satisfies the k-th term of the incompatibility.
SatisfiesTerm(inc, k, a) ==
    a.name = inc.Terms[k].Name /\ termSatisfiedBy(inc.Terms[k], a)

\* The partial solution satisfies the term (evaluateIncompatibility's
\* relation for it).
SatisfiedNow(ps, term) ==
    relationForTerm(term, allowedSet(ps, term.Name), hasAssignments(ps, term.Name))
        = "relationSatisfied"

LogOf(ps) == {ps.assignments[i] : i \in 1..Len(ps.assignments)}

SatisfierSatisfies(ps, inc, sat) ==
    \E k \in 1..Len(inc.Terms) : SatisfiesTerm(inc, k, sat)

SatisfierLatest(ps, inc, sat) ==
    \A a \in LogOf(ps) :
        (\E k \in 1..Len(inc.Terms) : SatisfiesTerm(inc, k, a)) => a.index <= sat.index

SatisfierCovers(ps, inc, sat) ==
    \A k \in 1..Len(inc.Terms) :
        SatisfiedNow(ps, inc.Terms[k]) =>
            \E a \in LogOf(ps) : SatisfiesTerm(inc, k, a) /\ a.index <= sat.index

\* The incompatibilities whose satisfier is looked at: the one conflict
\* resolution is working on and every registered one.
Queried == Registered \cup ({resolving} \ {NoIncompatibility})

\* C18 (as stated): when satisfier(I) returns S, S satisfies some term of
\* I, no assignment that satisfies a term of I has a larger index, and
\* every term of I the partial solution satisfies is satisfied by an
\* assignment of index at most S.index.
C18_SatisfierCoversSatisfied ==
    \A inc \in Queried :
        LET sat == satisfier(state.partial, inc) IN
        sat # <<>> =>
            /\ SatisfierSatisfies(state.partial, inc, sat[1])
            /\ SatisfierLatest(state.partial, inc, sat[1])
            /\ SatisfierCovers(state.partial, inc, sat[1])

\* C18 witness: conflict resolution asks for the satisfier of an
\* incompatibility of which two terms are satisfied by different
\* assignments.
C18_Witness ==
    /\ pc = "resolve"
    /\ satisfier(state.partial, resolving) # <<>>
    /\ \E a \in LogOf(state.partial) :
          /\ a.index < satisfier(state.partial, resolving)[1].index
          /\ a.name # satisfier(state.partial, resolving)[1].name
          /\ SatisfierSatisfies(state.partial, resolving, a)

\* ----------------------------------------------------------------------
\* The satisfier queries of conflict resolution
\* ----------------------------------------------------------------------

\* At pc = "resolve" resolveConflict is about to ask for the satisfier of
\* resolving: the conflict Solve handed over, or a resolvent.
SatisfiedByPartial ==
    evaluateIncompatibility(state, resolving).relation = "relationSatisfied"

\* C19 (as stated): whenever conflict resolution asks for the satisfier,
\* the incompatibility is satisfied by the partial solution and the
\* satisfier is not nil.
C19_SatisfierGuaranteed ==
    pc = "resolve" =>
        /\ SatisfiedByPartial
        /\ satisfier(state.partial, resolving) # <<>>

\* C19 (amended): whenever conflict resolution asks for the satisfier,
\* the incompatibility is satisfied by the partial solution, and the
\* satisfier is nil exactly when the incompatibility has no terms.
C19_SatisfierUnlessEmpty ==
    pc = "resolve" =>
        /\ SatisfiedByPartial
        /\ (satisfier(state.partial, resolving) = <<>> <=> Len(resolving.Terms) = 0)

\* C19 witness: conflict resolution asks for the satisfier of a learned
\* incompatibility without terms.
C19_Witness ==
    /\ pc = "resolve"
    /\ resolving.Kind = "KindConflict"
    /\ Len(resolving.Terms) = 0
    /\ satisfier(state.partial, resolving) = <<>>

\* ----------------------------------------------------------------------
\* The outcomes of conflict resolution
\* ----------------------------------------------------------------------

\* The satisfier of the incompatibility under resolution is nil or the
\* decision at level 0.
NoWayBack ==
    LET sat == satisfier(state.partial, resolving) IN
    sat = <<>> \/ (isDecision(sat[1]) /\ sat[1].decisionLevel = 0)

\* The step ends the solve in failure with resolving as the root
\* incompatibility.
FailsWithResolving ==
    /\ pc' = "done"
    /\ IF options.TrackIncompatibilities
       THEN result' = [kind |-> "NoSolutionError", Incompatibility |-> resolving]
       ELSE result' = [kind |-> "ErrNoSolutionFound", Term |-> fallbackTerm(resolving)]

\* The step backjumps and registers resolving, or replaces resolving by
\* its resolvent with the satisfier's cause.
Backjumps(sat) ==
    /\ pc' = "top"
    /\ isDecision(sat)
    /\ state'.partial.decisionLvl < sat.decisionLevel
    /\ state'.partial = backtrack(state.partial, state'.partial.decisionLvl)
    /\ resolving \in Registered'
    /\ result' = result

Resolves(sat) ==
    /\ pc' = "resolve"
    /\ sat.cause # NoIncompatibility
    /\ resolving' = resolveIncompatibility(resolving, sat.cause, sat.name)
    /\ state' = state
    /\ result' = result

C20_Step ==
    pc = "resolve" =>
        IF NoWayBack
        THEN FailsWithResolving
        ELSE /\ pc' # "done"
             /\ \/ Backjumps(satisfier(state.partial, resolving)[1])
                \/ Resolves(satisfier(state.partial, resolving)[1])

\* C20: conflict resolution ends the solve in failure, with the current
\* incompatibility as the root incompatibility, exactly when the
\* satisfier is nil or the decision at level 0; otherwise it backjumps or
\* resolves the incompatibility with the satisfier's cause.
C20_FailsExactlyWhenNoWayBack == [][C20_Step]_vars

\* C20 witness: the solve has failed on an incompatibility whose
\* satisfier is the decision at level 0.
C20_Witness ==
    /\ pc = "done"
    /\ Failed
    /\ resolving # NoIncompatibility
    /\ satisfier(state.partial, resolving) # <<>>
    /\ isDecision(satisfier(state.partial, resolving)[1])
    /\ satisfier(state.partial, resolving)[1].decisionLevel = 0

\* ----------------------------------------------------------------------
\* The previous decision level
\* ----------------------------------------------------------------------

\* The satisfier conflict resolution is about to look at is a decision
\* above level 0.
SatisfierIsLaterDecision ==
    /\ pc = "resolve"
    /\ satisfier(state.partial, resolving) # <<>>
    /\ isDecision(satisfier(state.partial, resolving)[1])
    /\ satisfier(state.partial, resolving)[1].decisionLevel > 0

\* C21: conflict resolution never resolves against an assignment without
\* cause: when the satisfier is a decision above level 0, the previous
\* decision level is lower than the satisfier's level, and Solve never
\* returns the error "derived assignment missing cause".
C21_NoMissingCause ==
    /\ result.kind # "InternalError"
    /\ SatisfierIsLaterDecision =>
          previousDecisionLevel(state.partial, resolving,
                                satisfier(state.partial, resolving)[1])
              < satisfier(state.partial, resolving)[1].decisionLevel

\* C21 witness: the satisfier is a decision above level 0 and a term of
\* the incompatibility is satisfied by another assignment.
C21_Witness ==
    /\ SatisfierIsLaterDecision
    /\ \E a \in LogOf(state.partial) :
          /\ a.index # satisfier(state.partial, resolving)[1].index
          /\ SatisfierSatisfies(state.partial, resolving, a)

\* ----------------------------------------------------------------------
\* The backjump of conflict resolution
\* ----------------------------------------------------------------------

\* As many copies of inc as it has terms naming the package.
RECURSIVE CopiesFor(_, _, _)
CopiesFor(inc, name, k) ==
    IF k > Len(inc.Terms) THEN <<>>
    ELSE IF inc.Terms[k].Name = name THEN <<inc>> \o CopiesFor(inc, name, k + 1)
    ELSE CopiesFor(inc, name, k + 1)

\* The satisfier is a decision and the previous level is below its level.
BackjumpCase ==
    LET sat == satisfier(state.partial, resolving) IN
    /\ sat # <<>>
    /\ isDecision(sat[1])
    /\ previousDecisionLevel(state.partial, resolving, sat[1]) < sat[1].decisionLevel

C22_Step ==
    pc = "resolve" =>
        IF BackjumpCase
        THEN LET sat == satisfier(state.partial, resolving)[1]
                 prev == previousDecisionLevel(state.partial, resolving, sat)
             IN /\ state'.partial = backtrack(state.partial, prev)
                /\ state'.partial.decisionLvl = prev
                /\ \A name \in Pkgs \cup {RootName} :
                      watchList(state', name) =
                          watchList(state, name) \o CopiesFor(resolving, name, 1)
                /\ \A k \in 1..Len(resolving.Terms) :
                      resolving.Terms[k].Name \in Pkgs \cup {RootName}
                /\ state'.learned = IF options.TrackIncompatibilities
                                    THEN Append(state.learned, resolving)
                                    ELSE state.learned
                /\ propagateSeed' = sat.name
                /\ conflict' = NoIncompatibility
                /\ pc' = "top"
        ELSE /\ state'.partial = state.partial
             /\ state'.incompatibilities = state.incompatibilities

\* The propagation that begins with the seed of a backjump.
SeededPropagationBegins ==
    pc = "top" /\ pc' = "propagate" /\ propagateSeed # EmptyName

\* The first package the propagation that begins visits is the seed.
C22_SeedFirst ==
    SeededPropagationBegins =>
        state'.queue # <<>> /\ Head(state'.queue) = propagateSeed

\* The propagation that begins appends the seed to the queue, behind the
\* packages the queue holds, unless the seed is among them; the package it
\* visits first is the head of the queue, which is the seed exactly when
\* the queue was empty or had the seed at its head.
C22_Seeded ==
    SeededPropagationBegins =>
        /\ state'.queue =
              IF \E i \in 1..Len(state.queue) : state.queue[i] = propagateSeed
              THEN state.queue
              ELSE Append(state.queue, propagateSeed)
        /\ dequeue(state').name = Head(state'.queue)
        /\ (Head(state'.queue) = propagateSeed) <=>
              (state.queue = <<>> \/ Head(state.queue) = propagateSeed)

\* C22 (as claimed): when the satisfier is a decision and the previous
\* level is below its level, conflict resolution backtracks to exactly
\* the previous level, adds the incompatibility to the watch list of
\* every package it names and, if and only if tracking is on, to the
\* learned list, and the next propagation starts from the satisfier's
\* package; no other branch of conflict resolution changes the partial
\* solution or the watch index.
C22_StartsFromSeed == [][C22_Step /\ C22_SeedFirst]_vars

\* C22 (amended): as claimed, except that the next propagation does not
\* always start from the satisfier's package: it is handed the package as
\* its seed and appends it to the propagation queue unless it is queued,
\* so it visits first the packages the queue still holds, and starts from
\* the seed only when the queue was empty or had the seed at its head.
C22_BackjumpEffect == [][C22_Step /\ C22_Seeded]_vars

\* C22 witness: a backjump has registered the incompatibility and seeded
\* the propagation, while the queue still holds another package at its
\* head.
C22_Witness ==
    /\ pc = "top"
    /\ conflict = NoIncompatibility
    /\ propagateSeed # EmptyName
    /\ resolving # NoIncompatibility
    /\ resolving \in Registered
    /\ state.queue # <<>>
    /\ Head(state.queue) # propagateSeed

\* ----------------------------------------------------------------------
\* The learned incompatibility after the backjump
\* ----------------------------------------------------------------------

\* In the state after the step, the terms of resolving on the package are
\* not satisfied and every other term is.
OnlyPivotOpen(name) ==
    \A k \in 1..Len(resolving.Terms) :
        SatisfiedNow(state'.partial, resolving.Terms[k]) <=> resolving.Terms[k].Name # name

\* C23 (as stated): right after a backjump that learns I, the term of I
\* on the satisfier's package is not satisfied and every other term is.
C23_LearnedIsUnit ==
    [][(pc = "resolve" /\ BackjumpCase) =>
          OnlyPivotOpen(satisfier(state.partial, resolving)[1].name)]_vars

\* In the state after the step, every term of resolving on another
\* package is satisfied, and a term on the package is satisfied exactly
\* when an assignment left in the log satisfies it.
PivotOpenUnlessEarlier(name) ==
    \A k \in 1..Len(resolving.Terms) :
        IF resolving.Terms[k].Name # name
        THEN SatisfiedNow(state'.partial, resolving.Terms[k])
        ELSE SatisfiedNow(state'.partial, resolving.Terms[k]) <=>
                \E a \in LogOf(state'.partial) : SatisfiesTerm(resolving, k, a)

\* In the state after the step, evaluateIncompatibility finds resolving
\* satisfied if an assignment left in the log satisfies a term of it on
\* the package, and otherwise almost satisfied with a term on the package
\* as the unsatisfied one.
LearnedRelation(name) ==
    IF \E k \in 1..Len(resolving.Terms) :
          /\ resolving.Terms[k].Name = name
          /\ \E a \in LogOf(state'.partial) : SatisfiesTerm(resolving, k, a)
    THEN evaluateIncompatibility(state', resolving).relation = "relationSatisfied"
    ELSE /\ evaluateIncompatibility(state', resolving).relation
                = "relationAlmostSatisfied"
         /\ evaluateIncompatibility(state', resolving).unsatisfied[1].Name = name

\* C23 (amended): right after a backjump that learns I, every term of I
\* on a package other than the satisfier's is still satisfied, and the
\* term on the satisfier's package is satisfied if and only if an
\* assignment at or below the level backjumped to satisfies it.  If none
\* does, I evaluates to almost satisfied with that term as its unsatisfied
\* term; if one does, I evaluates to satisfied.
C23_LearnedUnitUnlessEarlier ==
    [][(pc = "resolve" /\ BackjumpCase) =>
          /\ PivotOpenUnlessEarlier(satisfier(state.partial, resolving)[1].name)
          /\ LearnedRelation(satisfier(state.partial, resolving)[1].name)]_vars

\* C23 witness: after a backjump the learned incompatibility is still
\* satisfied by the partial solution.
C23_Witness ==
    /\ pc = "top"
    /\ conflict = NoIncompatibility
    /\ propagateSeed # EmptyName
    /\ resolving \in Registered
    /\ state.partial.nextIndex > Len(state.partial.assignments)
    /\ evaluateIncompatibility(state, resolving).relation = "relationSatisfied"

\* ----------------------------------------------------------------------
\* The shape of a resolvent
\* ----------------------------------------------------------------------

NamesOf(inc) == {inc.Terms[k].Name : k \in 1..Len(inc.Terms)}

TermsOn(inc, name) == {inc.Terms[k] : k \in {i \in 1..Len(inc.Terms) : inc.Terms[i].Name = name}}

\* The term stands for both terms together: a version satisfies it if
\* and only if it satisfies both (the intersection of two allowed sets,
\* the union of two forbidden sets).
MergeOf(t, a, b) ==
    /\ t.Positive = a.Positive
    /\ \A v \in 1..(MaxVer + 1) : SatisfiedBy(t, v) <=> (SatisfiedBy(a, v) /\ SatisfiedBy(b, v))

\* What the terms of the resolvent r on a package other than the pivot
\* must be, given the terms of the two parents on it.
ResolventTermsOn(r, inc, cause, name) ==
    LET fromInc == TermsOn(inc, name)
        fromCause == TermsOn(cause, name)
    IN IF fromCause = {} THEN TermsOn(r, name) = fromInc
       ELSE IF fromInc = {} THEN TermsOn(r, name) = fromCause
       ELSE \A a \in fromInc, b \in fromCause :
               IF a.Positive = b.Positive
               THEN \E t \in TermsOn(r, name) : TermsOn(r, name) = {t} /\ MergeOf(t, a, b)
               ELSE TermsOn(r, name) = {a, b}

ResolventShape(r, inc, cause, pivot) ==
    /\ pivot \notin NamesOf(r)
    /\ NamesOf(r) = (NamesOf(inc) \cup NamesOf(cause)) \ {pivot}
    /\ \A name \in NamesOf(r) : ResolventTermsOn(r, inc, cause, name)

\* A step of conflict resolution that resolves.
ResolveCase ==
    /\ pc = "resolve"
    /\ ~NoWayBack
    /\ ~BackjumpCase

\* C24: the resolvent of I and a cause at pivot P has no term naming P;
\* every other package of either parent appears in it, with terms of the
\* same polarity merged (intersection of positive, union of negative
\* terms), and with two terms of opposite polarity both kept.
C24_ResolventShape ==
    [][ResolveCase =>
          ResolventShape(resolving', resolving,
                         satisfier(state.partial, resolving)[1].cause,
                         satisfier(state.partial, resolving)[1].name)]_vars

\* ----------------------------------------------------------------------
\* The classification of the incompatibilities propagation visits
\* ----------------------------------------------------------------------

\* The versions of the sample 0..MaxVer+1 that a version set holds.
VersionsOf(set) == {v \in 0..(MaxVer + 1) : Contains(set, v)}

\* The relation of a term to the partial solution, by the sets of
\* versions: A is the package's allowed set, R or F the term's set.
TermClass(ps, term) ==
    LET A == VersionsOf(allowedSet(ps, term.Name))
        S == VersionsOf(conditionSet(term.Condition).set)
        has == Len(stackOf(ps, term.Name)) > 0
    IN IF term.Positive
       THEN IF A \subseteq S /\ has THEN "satisfied"
            ELSE IF A \cap S = {} THEN "contradicted"
            ELSE "inconclusive"
       ELSE IF A \cap S = {} THEN "satisfied"
            ELSE IF A \subseteq S /\ has THEN "contradicted"
            ELSE "inconclusive"

TermsOfClass(ps, inc, class) ==
    {k \in 1..Len(inc.Terms) : TermClass(ps, inc.Terms[k]) = class}

IncompatibilityClass(ps, inc) ==
    IF TermsOfClass(ps, inc, "satisfied") = 1..Len(inc.Terms) THEN "satisfied"
    ELSE IF TermsOfClass(ps, inc, "contradicted") = {}
            /\ Cardinality(TermsOfClass(ps, inc, "inconclusive")) = 1
    THEN "almost-satisfied"
    ELSE "skipped"

\* The derivation of term with the cause has been recorded on top of the
\* partial solution ps: next is ps with one assignment of the term and the
\* cause more, or with that and the record of the narrowed allowed set.
DerivedOnTop(ps, next, term, cause) ==
    LET n == Len(ps.assignments) IN
    /\ Len(next.assignments) \in {n + 1, n + 2}
    /\ SubSeq(next.assignments, 1, n) = ps.assignments
    /\ next.assignments[n + 1].term = term
    /\ next.assignments[n + 1].cause = cause
    /\ next.assignments[n + 1].kind = "assignmentDerivation"

\* What the visit of the incompatibilities incs from the k-th on must do
\* to the partial solution ps, by the classes: ok is whether every
\* almost-satisfied incompatibility led to its derivation.
RECURSIVE ClassVisit(_, _, _)
ClassVisit(ps, incs, k) ==
    IF k > Len(incs) THEN [ps |-> ps, conflict |-> NoIncompatibility, ok |-> TRUE]
    ELSE LET class == IncompatibilityClass(ps, incs[k]) IN
         CASE class = "satisfied" -> [ps |-> ps, conflict |-> incs[k], ok |-> TRUE]
           [] class = "almost-satisfied" ->
                LET t == incs[k].Terms[CHOOSE i \in TermsOfClass(ps, incs[k], "inconclusive") : TRUE]
                    next == addDerivation(ps, Negate(t), incs[k]).ps
                IN IF DerivedOnTop(ps, next, Negate(t), incs[k])
                   THEN ClassVisit(next, incs, k + 1)
                   ELSE [ps |-> ps, conflict |-> NoIncompatibility, ok |-> FALSE]
           [] OTHER -> ClassVisit(ps, incs, k + 1)

\* The classes of the incompatibilities a visit goes through.
RECURSIVE ClassesVisited(_, _, _)
ClassesVisited(ps, incs, k) ==
    IF k > Len(incs) THEN {}
    ELSE LET class == IncompatibilityClass(ps, incs[k]) IN
         {class} \cup
         (CASE class = "satisfied" -> {}
            [] class = "almost-satisfied" ->
                 ClassesVisited(addDerivation(ps, Negate(incs[k].Terms[
                                    CHOOSE i \in TermsOfClass(ps, incs[k], "inconclusive") : TRUE]),
                                    incs[k]).ps, incs, k + 1)
            [] OTHER -> ClassesVisited(ps, incs, k + 1))

\* A step of propagation that visits the incompatibilities of a package.
C25_Step ==
    /\ pc = "propagate"
    /\ dequeue(state).ok

C25_Visit ==
    LET d == dequeue(state)
        v == ClassVisit(d.st.partial, watchList(d.st, d.name), 1)
    IN /\ v.ok
       /\ state'.partial = v.ps
       /\ IF v.conflict # NoIncompatibility
          THEN conflict' = v.conflict /\ pc' = "top"
          ELSE pc' = "propagate" /\ conflict' = conflict

\* C25: propagation acts on each incompatibility it visits by its class:
\* one whose terms are all satisfied becomes the conflict and ends the
\* propagation, one with exactly one inconclusive term and no contradicted
\* term has the negation of that term derived with it as cause, every
\* other one is skipped; a positive term is satisfied iff the package's
\* allowed set is within its set and the package has an assignment and
\* contradicted iff the two sets are disjoint, a negative term is
\* satisfied iff the allowed set is disjoint from its set and contradicted
\* iff the allowed set is within it and the package has an assignment.
C25_PropagationClassifies == [][C25_Step => C25_Visit]_vars

C25_Witness ==
    /\ C25_Step
    /\ LET d == dequeue(state) IN
       ClassesVisited(d.st.partial, watchList(d.st, d.name), 1)
           = {"satisfied", "almost-satisfied", "skipped"}

\* ----------------------------------------------------------------------
\* The fixpoint of propagation
\* ----------------------------------------------------------------------

\* The solver is about to decide or has returned a solution.
DecidesOrSolved == pc = "decide" \/ result.kind = "Solution"

\* No registered incompatibility has all its terms satisfied.
ConflictFree ==
    \A inc \in Registered :
        /\ IncompatibilityClass(state.partial, inc) # "satisfied"
        /\ evaluateIncompatibility(state, inc).relation # "relationSatisfied"

\* C26: whenever the solver makes a decision or returns a solution, the
\* propagation queue is empty and no incompatibility of the watch index is
\* fully satisfied by the partial solution.
C26_PropagationFixpoint ==
    DecidesOrSolved => (state.queue = <<>> /\ state.queued = {} /\ ConflictFree)

C26_Witness ==
    /\ pc = "decide"
    /\ state.partial.decisionLvl >= 1
    /\ \E inc \in Registered : inc.Kind = "KindConflict"
    /\ ~isComplete(state.partial)

\* The parts of the fixpoint that hold in every state reached: the queue
\* is empty at a decision and at a solution, and no registered
\* incompatibility is fully satisfied when a solution is returned.
QueueDrained == DecidesOrSolved => (state.queue = <<>> /\ state.queued = {})

SolutionConflictFree == result.kind = "Solution" => ConflictFree

\* ----------------------------------------------------------------------
\* Termination
\* ----------------------------------------------------------------------

\* C27: every solve takes finitely many steps, also with the watchdog
\* disabled: from some point on no main-loop iteration, no iteration of
\* the propagation drain and no iteration of the resolve loop happens any
\* more.  Every step of a solve changes the state, and a solve that has not
\* returned can always take a step, so the solve has returned by then.
C27_SolveReturns == <>[][FALSE]_vars

\* A solve without watchdog that has returned after more main-loop
\* iterations than any cap explored, having learned from a conflict and
\* gone through both inner loops.
C27_Witness ==
    /\ pc = "done"
    /\ options.MaxSteps = 0
    /\ steps > MaxStepCap + 1
    /\ \E inc \in Registered : inc.Kind = "KindConflict"
    /\ result.kind \in {"Solution", "NoSolutionError"}

\* ----------------------------------------------------------------------
\* The previous decision level
\* ----------------------------------------------------------------------

\* The decision levels of the assignments other than sat that satisfy
\* some term of the incompatibility.
OtherSatisfyingLevels(ps, inc, sat) ==
    {a.decisionLevel : a \in {b \in LogOf(ps) : /\ b.index # sat.index
                                                 /\ SatisfierSatisfies(ps, inc, b)}}

MaxOrZero(levels) ==
    IF levels = {} THEN 0 ELSE CHOOSE m \in levels : \A l \in levels : l <= m

\* The assignments S the query is checked for: the satisfier of the
\* incompatibility and, for the conflict being resolved, every assignment
\* of the partial solution.
ExcludedFor(inc) ==
    LET sat == satisfier(state.partial, inc) IN
    {sat[i] : i \in 1..Len(sat)} \cup (IF inc = resolving THEN LogOf(state.partial) ELSE {})

\* C28: previousDecisionLevel(I, S) is the largest decision level of the
\* assignments other than S that satisfy some term of I, and 0 if there
\* is none; for every incompatibility conflict resolution may query.
C28_PreviousLevelIsMax ==
    \A inc \in Queried : \A sat \in ExcludedFor(inc) :
        previousDecisionLevel(state.partial, inc, sat)
            = MaxOrZero(OtherSatisfyingLevels(state.partial, inc, sat))

\* Conflict resolution queries the previous level of a satisfier, and
\* the level is above 0, set by an assignment that is not the latest of
\* its package, with satisfying assignments of lower levels beside it.
C28_Witness ==
    /\ pc = "resolve"
    /\ satisfier(state.partial, resolving) # <<>>
    /\ LET sat == satisfier(state.partial, resolving)[1]
           prev == previousDecisionLevel(state.partial, resolving, sat)
       IN /\ prev >= 1
          /\ Cardinality(OtherSatisfyingLevels(state.partial, resolving, sat)) >= 2
          /\ \E a \in LogOf(state.partial) :
                /\ a.index # sat.index
                /\ a.decisionLevel = prev
                /\ SatisfierSatisfies(state.partial, resolving, a)
                /\ a.index # latest(state.partial, a.name)[1].index

\* ----------------------------------------------------------------------
\* Satisfaction of a positive term by an assignment
\* ----------------------------------------------------------------------

\* The effective allowed set of an assignment: the versions its package
\* was left with when the assignment was made, from the assignments of
\* the package up to it.
EffectiveAllowed(ps, a) ==
    LET stack == stackOf(ps, a.name)
        pos == CHOOSE k \in 1..Len(stack) : stack[k].index = a.index
    IN VersionsOf(allowedSetLoop(SubSeq(stack, 1, pos), 1, FullVersionSet))

RequiredBy(term) == VersionsOf(conditionSet(term.Condition).set)

\* The positive terms of the incompatibility that the assignment counts
\* as satisfying in the queries.
PositiveTermsCounted(inc, a) ==
    {k \in 1..Len(inc.Terms) : inc.Terms[k].Positive /\ SatisfiesTerm(inc, k, a)}

\* An assignment of the term's package whose effective allowed set is
\* disjoint from the term's set.
MerelyDisjoint(ps, inc, k, a) ==
    /\ a.name = inc.Terms[k].Name
    /\ inc.Terms[k].Positive
    /\ EffectiveAllowed(ps, a) \cap RequiredBy(inc.Terms[k]) = {}

\* C29: in the satisfier and previous-decision-level queries an
\* assignment counts as satisfying a positive term with set R only if its
\* effective allowed set is a subset of R; an assignment whose allowed set
\* is disjoint from R does not count, so the satisfier returned for an
\* incompatibility with positive terms only has its allowed set within
\* the set of a term.
C29_SubsetOnly ==
    \A inc \in Queried :
        /\ \A a \in LogOf(state.partial) :
              /\ \A k \in PositiveTermsCounted(inc, a) :
                    EffectiveAllowed(state.partial, a) \subseteq RequiredBy(inc.Terms[k])
              /\ \A k \in 1..Len(inc.Terms) :
                    MerelyDisjoint(state.partial, inc, k, a) => ~SatisfiesTerm(inc, k, a)
        /\ LET sat == satisfier(state.partial, inc) IN
           (sat # <<>> /\ \A k \in 1..Len(inc.Terms) : inc.Terms[k].Positive) =>
               \E k \in 1..Len(inc.Terms) :
                   /\ sat[1].name = inc.Terms[k].Name
                   /\ EffectiveAllowed(state.partial, sat[1]) \subseteq RequiredBy(inc.Terms[k])

\* During conflict resolution, an incompatibility with a satisfier has a
\* positive term, and an assignment of the term's package records an
\* allowed set that is disjoint from the term's set.
C29_Witness ==
    /\ pc = "resolve"
    /\ \E inc \in Queried :
          /\ satisfier(state.partial, inc) # <<>>
          /\ \E k \in 1..Len(inc.Terms) : \E a \in LogOf(state.partial) :
                /\ MerelyDisjoint(state.partial, inc, k, a)
                /\ a.hasAllowed
                /\ a.index > satisfier(state.partial, inc)[1].index

\* ----------------------------------------------------------------------
\* The per-package stacks and the chronological log
\* ----------------------------------------------------------------------

\* The assignments of the package in the log, in the log's order.
LogOn(ps, name) ==
    LET OnPackage(a) == a.name = name IN SelectSeq(ps.assignments, OnPackage)

\* Every stack is the package's part of the log, and no stack is empty.
StacksMatchLog(ps) ==
    /\ \A name \in DOMAIN ps.perPackage :
          /\ ps.perPackage[name] # <<>>
          /\ ps.perPackage[name] = LogOn(ps, name)
    /\ \A k \in 1..Len(ps.assignments) : ps.assignments[k].name \in DOMAIN ps.perPackage

\* The terms a derivation is tried with.
DerivationTerms == DepTerms \cup {Negate(t) : t \in DepTerms}

\* C30: after any sequence of seedRoot, addDecision, addDerivation and
\* backtrack, each package's stack is the subsequence of the log made of
\* the package's assignments, in the same order, and no package is mapped
\* to an empty stack: it holds of the partial solution of every state of
\* a solve, and, where the solver is about to decide or to resolve a
\* conflict, of what any one more of the operations makes of it.
C30_StacksMatchLog ==
    LET ps == state.partial IN
    /\ StacksMatchLog(ps)
    /\ pc = "idle" => StacksMatchLog(seedRoot(newPartialSolution(RootName), RootName, 1))
    /\ pc \in {"decide", "resolve"} =>
          /\ \A level \in BacktrackLevels : StacksMatchLog(backtrack(ps, level))
          /\ \A name \in Pkgs : \A v \in 1..MaxVer :
                StacksMatchLog(addDecision(ps, name, v))
          /\ \A t \in DerivationTerms :
                StacksMatchLog(addDerivation(ps, t, NoIncompatibility).ps)

\* A backjump has just removed assignments: a package that is watched has
\* no stack left, another keeps several assignments, and the log has
\* gaps in its indexes.
C30_Witness ==
    /\ pc = "top"
    /\ propagateSeed # EmptyName
    /\ state.partial.nextIndex > Len(state.partial.assignments) + 1
    /\ \E name \in DOMAIN state.partial.perPackage \ {RootName} :
          Len(state.partial.perPackage[name]) >= 2
    /\ \E name \in DOMAIN state.incompatibilities : name \notin DOMAIN state.partial.perPackage

\* ----------------------------------------------------------------------
\* The allowed sets of the assigned packages
\* ----------------------------------------------------------------------

\* The decisions of the package in the partial solution.
DecisionsOn(ps, name) ==
    {a \in LogOf(ps) : a.name = name /\ a.kind = "assignmentDecision"}

\* C31: in every state of a solve the current allowed set of every package
\* with an assignment is non-empty, and for a package with a decision it is
\* the singleton of the decided version.
C31_AllowedNonEmpty ==
    \A name \in DOMAIN state.partial.perPackage :
        LET allowed == allowedSet(state.partial, name) IN
        /\ ~IsEmpty(allowed)
        /\ VersionsOf(allowed) # {}
        /\ \A d \in DecisionsOn(state.partial, name) :
              /\ allowed = Singleton(d.version)
              /\ VersionsOf(allowed) = {d.version}

\* A package has a decision and a derivation made after it, and the
\* allowed set of a package has been narrowed by a negative derivation.
C31_Witness ==
    /\ \E name \in DOMAIN state.partial.perPackage \ {RootName} :
          \E d \in DecisionsOn(state.partial, name) :
              latest(state.partial, name)[1].index > d.index
    /\ \E a \in LogOf(state.partial) : ~a.term.Positive

\* ----------------------------------------------------------------------
\* The effects of addDerivation
\* ----------------------------------------------------------------------

\* The states in which a derivation may be asked for.
Deriving == pc \in {"propagate", "decide", "resolve"}

\* The derivation of the term signals that no version is left.
SignalsNoAllowed(ps, t) ==
    addDerivation(ps, t, NoIncompatibility).err = "errNoAllowedVersions"

\* C32: when addDerivation signals that no version is allowed, the partial
\* solution is as before: the log, every stack, the decision level and
\* the next index keep their values, and no assignment is returned.
C32_FailedDerivationNoEffect ==
    Deriving =>
        \A t \in DerivationTerms :
            LET d == addDerivation(state.partial, t, NoIncompatibility) IN
            d.err # "" =>
                /\ d.err = "errNoAllowedVersions"
                /\ d.ps.assignments = state.partial.assignments
                /\ d.ps.perPackage = state.partial.perPackage
                /\ d.ps.decisionLvl = state.partial.decisionLvl
                /\ d.ps.nextIndex = state.partial.nextIndex
                /\ d.assign = <<>>
                /\ ~d.changed

\* A positive and a negative term whose derivations both signal, on a
\* partial solution with decisions and derivations.
C32_Witness ==
    /\ Deriving
    /\ state.partial.decisionLvl >= 1
    /\ \E t, u \in DerivationTerms :
          /\ t.Positive /\ ~u.Positive
          /\ SignalsNoAllowed(state.partial, t)
          /\ SignalsNoAllowed(state.partial, u)

\* The cause a derivation is tried with: the conflict last resolved, if
\* any.
DerivationCause == resolving

\* The derivation of the term narrows the allowed set of its package.
Tightens(ps, t) ==
    VersionsOf(applyTermToAllowed(allowedSet(ps, t.Name), t).set)
        # VersionsOf(allowedSet(ps, t.Name))

\* The two assignments a narrowing negative derivation appends: the
\* negative one and the positive record of the narrowed set.
TwoAppended(ps, t, cause, next) ==
    LET n == Len(ps.assignments)
        first == next.assignments[n + 1]
        second == next.assignments[n + 2]
        before == VersionsOf(allowedSet(ps, t.Name))
    IN /\ Len(next.assignments) = n + 2
       /\ Len(stackOf(next, t.Name)) = Len(stackOf(ps, t.Name)) + 2
       /\ first.term = t /\ first.name = t.Name
       /\ second.term.Positive /\ second.name = t.Name
       /\ second.kind = "assignmentDerivation" /\ first.kind = "assignmentDerivation"
       /\ second.hasAllowed
       /\ VersionsOf(second.allowed) = before \ RequiredBy(t)
       /\ RequiredBy(second.term) = before \ RequiredBy(t)
       /\ first.cause = cause /\ second.cause = cause
       /\ first.decisionLevel = ps.decisionLvl /\ second.decisionLevel = ps.decisionLvl
       /\ first.index = ps.nextIndex /\ second.index = first.index + 1
       /\ next.nextIndex = ps.nextIndex + 2
       /\ allowedSet(next, t.Name)
             = allowedSet([next EXCEPT !.perPackage[t.Name] =
                              SubSeq(@, 1, Len(@) - 1)], t.Name)

OneAppended(ps, t, cause, next) ==
    LET n == Len(ps.assignments) IN
    /\ Len(next.assignments) = n + 1
    /\ Len(stackOf(next, t.Name)) = Len(stackOf(ps, t.Name)) + 1
    /\ next.assignments[n + 1].term = t
    /\ next.assignments[n + 1].cause = cause
    /\ next.nextIndex = ps.nextIndex + 1

\* C33: a negative derivation that narrows the allowed set appends two
\* assignments, the negative one and a positive one that records the
\* narrowed set, with the same cause, the same decision level and
\* consecutive indexes, and the second leaves the allowed set as the first
\* made it; a derivation that does not narrow the set appends one.
C33_TighteningAppendsTwo ==
    pc \in {"decide", "resolve"} =>
        \A t \in DerivationTerms :
            LET d == addDerivation(state.partial, t, DerivationCause)
                tightens == Tightens(state.partial, t)
            IN d.err = "" =>
                  /\ (~t.Positive /\ tightens)
                        => TwoAppended(state.partial, t, DerivationCause, d.ps)
                  /\ ~tightens => OneAppended(state.partial, t, DerivationCause, d.ps)

\* A negative term narrows the set of a package with assignments, with a
\* cause, and another negative term does not narrow the set of its
\* package.
C33_Witness ==
    /\ pc \in {"decide", "resolve"}
    /\ resolving # NoIncompatibility
    /\ \E t, u \in DerivationTerms :
          /\ ~t.Positive /\ ~u.Positive
          /\ hasAssignments(state.partial, t.Name)
          /\ addDerivation(state.partial, t, NoIncompatibility).err = ""
          /\ addDerivation(state.partial, u, NoIncompatibility).err = ""
          /\ Tightens(state.partial, t)
          /\ ~Tightens(state.partial, u)

\* ----------------------------------------------------------------------
\* The terms of the incompatibilities a solve constructs
\* ----------------------------------------------------------------------

DistinctNames(inc) ==
    \A i, j \in 1..Len(inc.Terms) : inc.Terms[i].Name = inc.Terms[j].Name => i = j

\* What the claim asks of an incompatibility.
WellFormed(inc) ==
    /\ DistinctNames(inc)
    /\ inc.Kind = "KindFromDependency" => Len(inc.Terms) = 2

\* A Conflict built from the list of terms keeps, for each name, the
\* first term of the list with that name, in the list's order.
KeepsFirst(terms) ==
    LET inc == NewIncompatibilityConflict(terms, NoIncompatibility, NoIncompatibility)
        firsts == {k \in 1..Len(terms) : \A j \in 1..(k - 1) : terms[j].Name # terms[k].Name}
        nth(i) == CHOOSE k \in firsts : Cardinality({j \in firsts : j <= k}) = i
    IN /\ DistinctNames(inc)
       /\ inc.Terms = [i \in 1..Cardinality(firsts) |-> terms[nth(i)]]

\* The lists of terms a Conflict is built from in the checks: the terms
\* of two incompatibilities the solve holds, one after the other.
TermLists == {i.Terms \o j.Terms : i, j \in {conflict, resolving} \ {NoIncompatibility}}

\* The incompatibilities held after the registration of the dependency
\* list deps of the decided version of a package.
AfterRegistration(name, version, deps) ==
    LET reg == registerDependencies(state, name, version, deps) IN
    UNION {{reg.st.incompatibilities[n][k] : k \in 1..Len(reg.st.incompatibilities[n])} :
              n \in DOMAIN reg.st.incompatibilities}
        \cup ({reg.conflict} \ {NoIncompatibility})

\* The part of the claim that holds in every state of the solves explored,
\* whose catalogs have no package that depends on itself.
HeldWellFormed ==
    /\ \A inc \in Held : WellFormed(inc)
    /\ \A terms \in TermLists : KeepsFirst(terms)

\* C34: every incompatibility constructed during a solve has terms with
\* pairwise distinct package names, every FromDependency incompatibility
\* has two terms, and a Conflict built from a list with repeated names
\* keeps the first term of each name; also for the incompatibilities that
\* the registration of the dependencies of a decided version constructs,
\* whatever dependency the catalog lists for it.
C34_DistinctNames ==
    /\ HeldWellFormed
    /\ pc = "decide" =>
          \A name \in DOMAIN state.partial.perPackage \ {RootName} :
              \A d \in DecisionsOn(state.partial, name) : \A dep \in DepTerms :
                  \A inc \in AfterRegistration(name, d.version, <<dep>>) : WellFormed(inc)

\* ----------------------------------------------------------------------
\* The package the solver decides next
\* ----------------------------------------------------------------------

\* The packages other than the root with an assignment in the log and no
\* decision among the assignments of the log.
Undecided(ps) ==
    {ps.assignments[k].name : k \in 1..Len(ps.assignments)}
        \ ({ps.root} \cup {ps.assignments[k].name :
                k \in {j \in 1..Len(ps.assignments) :
                          ps.assignments[j].kind = "assignmentDecision"}})

\* The position in the log of the first assignment of the package.
FirstPosition(ps, name) ==
    CHOOSE k \in 1..Len(ps.assignments) :
        /\ ps.assignments[k].name = name
        /\ \A j \in 1..(k - 1) : ps.assignments[j].name # name

\* C35: nextDecisionCandidate returns a package exactly when some package
\* other than the root has an assignment and no decision, and the package
\* it returns is the one of these whose first assignment is the earliest
\* in the log.
C35_EarliestUndecided ==
    LET ps == state.partial
        cand == nextDecisionCandidate(ps)
        und == Undecided(ps)
    IN /\ cand # EmptyName <=> und # {}
       /\ und # {} =>
             /\ cand \in und
             /\ \A n \in und : FirstPosition(ps, cand) <= FirstPosition(ps, n)

\* The solver is about to decide, two packages are undecided, and the
\* first assignment of a decided package comes before the candidate's.
C35_Witness ==
    LET ps == state.partial
        cand == nextDecisionCandidate(ps)
    IN /\ pc = "decide"
       /\ Cardinality(Undecided(ps)) >= 2
       /\ \E k \in 1..Len(ps.assignments) :
             /\ ps.assignments[k].name # ps.root
             /\ ps.assignments[k].kind = "assignmentDecision"
             /\ FirstPosition(ps, ps.assignments[k].name) < FirstPosition(ps, cand)

\* ----------------------------------------------------------------------
\* The indexes of the assignments
\* ----------------------------------------------------------------------

\* The indexes strictly increase along the log and lie below nextIndex.
IndexesIncrease(ps) ==
    /\ \A i, j \in 1..Len(ps.assignments) :
          i < j => ps.assignments[i].index < ps.assignments[j].index
    /\ \A i \in 1..Len(ps.assignments) : ps.assignments[i].index < ps.nextIndex

\* Every assignment of the log of next that the log of ps does not hold
\* at the same position has an index that ps had not handed out yet.
IndexesFresh(ps, next) ==
    /\ next.nextIndex >= ps.nextIndex
    /\ \A k \in 1..Len(next.assignments) :
          \/ k <= Len(ps.assignments) /\ next.assignments[k] = ps.assignments[k]
          \/ next.assignments[k].index >= ps.nextIndex

\* C36: the indexes of the assignments strictly increase along the log in
\* every state, and no step of a solve, a step that backtracks included,
\* gives an assignment an index an earlier assignment of the solve had.
C36_IndexesNeverReused ==
    [][/\ IndexesIncrease(state.partial)
       /\ IndexesIncrease(state'.partial)
       /\ pc # "idle" => IndexesFresh(state.partial, state'.partial)]_vars

\* After a backtrack an assignment was appended: the log holds two
\* neighbouring assignments whose indexes are not consecutive.
C36_Witness ==
    LET log == state.partial.assignments IN
    /\ \E k \in 1..(Len(log) - 1) : log[k + 1].index > log[k].index + 1
    /\ state.partial.nextIndex > Len(log) + 1

\* ----------------------------------------------------------------------
\* The propagation queue
\* ----------------------------------------------------------------------

\* No name twice in the queue, and the membership set holds the names of
\* the queue and no other.
QueueConsistent(st) ==
    /\ \A i, j \in 1..Len(st.queue) : st.queue[i] = st.queue[j] => i = j
    /\ st.queued = {st.queue[i] : i \in 1..Len(st.queue)}

\* The names dequeue returns when it is called until it returns no name.
RECURSIVE Drain(_)
Drain(st) ==
    LET d == dequeue(st) IN
    IF ~d.ok THEN <<>> ELSE <<d.name>> \o Drain(d.st)

\* The names of the list that are not in the set, each once, in the order
\* of their first occurrence.
RECURSIVE EnqueuedOnce(_, _)
EnqueuedOnce(names, set) ==
    IF names = <<>> THEN <<>>
    ELSE IF Head(names) \in set THEN EnqueuedOnce(Tail(names), set)
    ELSE <<Head(names)>> \o EnqueuedOnce(Tail(names), set \cup {Head(names)})

QueueNames == Pkgs \cup {RootName}

\* C37: in every state the queue holds no name twice and the membership
\* set holds exactly the names of the queue; this stays so after two more
\* enqueues, with a dequeue before, between or after them, and the names
\* dequeue then returns are the names of the queue followed by the names
\* enqueued, in the order of their enqueueing, each name once.
C37_QueueFifo ==
    /\ QueueConsistent(state)
    /\ Drain(state) = state.queue
    /\ \A n1, n2 \in QueueNames :
          LET e1 == enqueue(state, n1)
              e2 == enqueue(e1, n2)
              d1 == dequeue(e1)
              e3 == enqueue(d1.st, n2)
          IN /\ QueueConsistent(e1) /\ QueueConsistent(e2)
             /\ QueueConsistent(d1.st) /\ QueueConsistent(e3)
             /\ QueueConsistent(dequeue(e2).st)
             /\ Drain(e2) = state.queue \o EnqueuedOnce(<<n1, n2>>, state.queued)
             /\ d1.ok /\ d1.name = Head(e1.queue)
             /\ <<d1.name>> \o Drain(e3) =
                   e1.queue \o EnqueuedOnce(<<n2>>, d1.st.queued)

\* During propagation two names wait in the queue and a package that has
\* assignments has left it.
C37_Witness ==
    /\ pc = "propagate"
    /\ Len(state.queue) >= 2
    /\ \E n \in DOMAIN state.partial.perPackage : n \notin state.queued

\* ----------------------------------------------------------------------
\* A solver asked again
\* ----------------------------------------------------------------------

\* The first step of a call of Solve: the locals of the main loop are as
\* a call leaves them at its beginning, and what the call then holds comes
\* from the root alone: the indexes of the log begin at 0, the decision
\* level is 0, the options are the solver's, and every incompatibility
\* registered has a term on the root.
StartsFresh ==
    /\ conflict = NoIncompatibility
    /\ propagateSeed = EmptyName
    /\ steps = 0 /\ steps' = 0
    /\ resolving = NoIncompatibility
    /\ state'.options = options
    /\ state'.partial.decisionLvl = 0
    /\ state'.partial.root = root.Name
    /\ state'.partial.nextIndex = Len(state'.partial.assignments)
    /\ \A k \in 1..Len(state'.partial.assignments) :
          state'.partial.assignments[k].index = k - 1
    /\ pc' # "done" =>
          /\ state'.partial.assignments[1].name = root.Name
          /\ state'.partial.assignments[1].kind = "assignmentDecision"
    /\ \A inc \in Registered' : \E i \in 1..Len(inc.Terms) : inc.Terms[i].Name = root.Name
    /\ \A k \in 1..Len(state'.learned) : state'.learned[k] \in Registered'

\* The earlier calls of Solve on the solver that were given what the call
\* in progress is given: the same options, catalog and root.
SameCalls ==
    {k \in 1..Len(session.returned) :
        /\ session.returned[k].options = options
        /\ session.returned[k].source = source
        /\ session.returned[k].root = root}

\* C38: every Solve starts from a fresh solver state, and a Solve returns
\* what every earlier Solve of the solver with the same options, catalog
\* and root returned, the first of which ran on a solver that had never
\* solved; the incompatibilities a tracked failure leaves in the solver
\* are its own, the same list the earlier such Solve left.
C38_SolveStartsFresh ==
    [][/\ (pc = "idle" /\ pc' # "idle") => StartsFresh
       /\ (pc # "done" /\ pc' = "done") =>
             /\ \A k \in SameCalls :
                   /\ result' = session.returned[k].result
                   /\ result'.kind = "NoSolutionError" =>
                         learned' = session.returned[k].learned
             /\ result'.kind = "NoSolutionError" => learned' = state.learned]_vars

\* A later Solve, with what an earlier Solve that failed and left its
\* incompatibilities was given, is about to resolve a conflict.
C38_Witness ==
    /\ pc = "resolve"
    /\ \E k \in SameCalls :
          /\ session.returned[k].result.kind = "NoSolutionError"
          /\ session.returned[k].learned # <<>>
    /\ learned # <<>>
    /\ Len(state.partial.assignments) > 1

\* ----------------------------------------------------------------------
\* The algebra of version sets (version_interval_set.go)
\* ----------------------------------------------------------------------

\* The bounds over the versions 1..MaxVer.
LowerBounds ==
    {negativeInfinityBound} \cup {newLowerBound(v, inc) : v \in 1..MaxVer, inc \in BOOLEAN}

UpperBounds ==
    {positiveInfinityBound} \cup {newUpperBound(v, inc) : v \in 1..MaxVer, inc \in BOOLEAN}

\* The intervals newInterval accepts.
Intervals ==
    {r[1] : r \in {newInterval(l, u) : l \in LowerBounds, u \in UpperBounds} \ {<<>>}}

\* The upper bound reaches the lower bound: no version lies strictly
\* between them and at least one of them takes the version they share, so
\* that an interval ending at upper and an interval beginning at lower
\* overlap (both take it) or are adjacent and leave no gap (one takes it).
Reaches(upper, lower) ==
    \/ isPosInfinity(upper)
    \/ isNegInfinity(lower)
    \/ /\ isFinite(upper) /\ isFinite(lower)
       /\ \/ upper.version > lower.version
          \/ upper.version = lower.version /\ (upper.inclusive \/ lower.inclusive)

\* Touching: overlapping, or adjacent with compatible inclusivity.
Touching(iv, other) ==
    Reaches(iv.upper, other.lower) /\ Reaches(other.upper, iv.lower)

\* The canonical form of a version set: every interval non-empty, the
\* intervals in ascending order, and no two of them touching (so pairwise
\* disjoint).
Canonical(s) ==
    /\ \A k \in 1..Len(s) : ~isEmpty(s[k])
    /\ \A i, j \in 1..Len(s) : i < j => compareLower(s[i].lower, s[j].lower) < 0
    /\ \A i, j \in 1..Len(s) : i # j => ~Touching(s[i], s[j])

\* The version sets in canonical form built from at most two intervals.
SetFamily ==
    {s \in {EmptySet} \cup {newVersionIntervalSet(<<i, j>>) : i, j \in Intervals} :
        Canonical(s)}

\* A caller holds two version sets and applies the operations to them.
SetInit ==
    /\ InitOf(IdleInputs)
    /\ NoCache
    /\ setA \in SetFamily
    /\ setB \in SetFamily

SetUnion ==
    /\ setA' = Union(setA, setB)
    /\ UNCHANGED <<setB, solverVars, cacheVars, session>>

SetIntersection ==
    /\ setA' = Intersection(setA, setB)
    /\ UNCHANGED <<setB, solverVars, cacheVars, session>>

SetComplement ==
    /\ setA' = Complement(setA)
    /\ UNCHANGED <<setB, solverVars, cacheVars, session>>

SetNext ==
    \/ SetUnion
    \/ SetIntersection
    \/ SetComplement

SetSpec == SetInit /\ [][SetNext]_vars

\* C39: the union and the intersection of two version sets and the
\* complement of a version set are in canonical form: intervals in
\* ascending order, pairwise disjoint, none empty, no two touching.
C39_OperationsCanonical ==
    /\ Canonical(Union(setA, setB))
    /\ Canonical(Intersection(setA, setB))
    /\ Canonical(Complement(setA))

\* What holds of the three results in every state: intervals in ascending
\* order, none empty, no two overlapping.
OperationsDisjoint ==
    \A s \in {Union(setA, setB), Intersection(setA, setB), Complement(setA)} :
        /\ \A k \in 1..Len(s) : ~isEmpty(s[k])
        /\ \A i, j \in 1..Len(s) : i < j => compareLower(s[i].lower, s[j].lower) < 0
        /\ \A i, j \in 1..Len(s) : i # j => ~overlaps(s[i], s[j])

\* Equality of version sets: the same sequence of intervals and the same
\* answer from Contains for every version.
SameSet(x, y) ==
    /\ x = y
    /\ \A v \in 0..(MaxVer + 1) : Contains(x, v) = Contains(y, v)

\* The same answer from Contains for every version.
SameVersions(x, y) ==
    \A v \in 0..(MaxVer + 1) : Contains(x, v) = Contains(y, v)

DeMorgan == SameSet(Complement(Union(setA, setB)),
                    Intersection(Complement(setA), Complement(setB)))

Idempotence == SameSet(Union(setA, setA), setA) /\ SameSet(Intersection(setA, setA), setA)

Involution == SameSet(Complement(Complement(setA)), setA)

Identity == SameSet(Union(setA, EmptySet), setA) /\ SameSet(Intersection(setA, FullVersionSet), setA)

\* C40: the set operations obey De Morgan, idempotence, involution and
\* identity, the two sides of each law being the same sequence of
\* intervals and answering Contains alike for every version.
C40_SetLaws ==
    /\ DeMorgan
    /\ Idempotence
    /\ Involution
    /\ Identity

\* What holds of the laws in every state: the two sides of each law
\* answer Contains alike for every version, and they are the same
\* sequence of intervals when the sets are in canonical form.
SetLawsOnVersions ==
    /\ SameVersions(Complement(Union(setA, setB)),
                    Intersection(Complement(setA), Complement(setB)))
    /\ SameVersions(Union(setA, setA), setA)
    /\ SameVersions(Intersection(setA, setA), setA)
    /\ SameVersions(Complement(Complement(setA)), setA)
    /\ SameVersions(Union(setA, EmptySet), setA)
    /\ SameVersions(Intersection(setA, FullVersionSet), setA)
    /\ (Canonical(setA) /\ Canonical(setB)) => C40_SetLaws


====
